---- MODULE Spec2Model ----
(***************************************************************************)
(* The flow engine of multisync (src/src/core.mjs): runFlow with its       *)
(* set-up (validateConfig, buildMcpServers, buildAgents) and the two step  *)
(* executors, execSingleAgent and execAgentReviewer, with the expression   *)
(* evaluator evalExpr.  The LLM primitive run(agent, history) of           *)
(* @openai/agents is the environment: every invocation answers with a      *)
(* finalOutput and a history drawn from small sets.                        *)
(***************************************************************************)
EXTENDS Integers, Sequences, FiniteSets, TLC

(* ----------------------------- bounds ---------------------------------- *)

\* longest flow.steps explored
MaxSteps == 2
\* largest step.maxTurns explored
MaxTurns == 2
\* most invocations of the primitive explored in one run of a flow
MaxRuns == 4

(* --------------------------- JS values --------------------------------- *)

\* A JavaScript value: t is its type tag, s the text of a primitive, f the
\* fields of an object (a field that is not set holds Undefined).
FieldNames == {"result", "score", "feedback"}

NoFields == [k \in FieldNames |-> [t |-> "undefined", s |-> ""]]

Prim(t, s) == [t |-> t, s |-> s, f |-> NoFields]

Undefined == Prim("undefined", "")

Null == Prim("null", "")

Str(s) == Prim("string", s)

Num(s) == Prim("number", s)

Bool(b) == Prim("boolean", IF b THEN "true" ELSE "false")

\* a field value: the same values, without the (unused) nested fields
FieldOf(v) == [t |-> v.t, s |-> v.s]

ValueOf(fv) == Prim(fv.t, fv.s)

\* an object literal with the three fields given (Undefined: not set)
Obj(result, score, feedback) ==
    [t |-> "object", s |-> "",
     f |-> [k \in FieldNames |->
              IF k = "result" THEN FieldOf(result)
              ELSE IF k = "score" THEN FieldOf(score)
              ELSE FieldOf(feedback)]]

\* v.k as JavaScript reads it off a non-nullish value
Get(v, k) == IF v.t = "object" THEN ValueOf(v.f[k]) ELSE Undefined

\* ToBoolean
Truthy(v) ==
    CASE v.t \in {"undefined", "null"} -> FALSE
      [] v.t = "string" -> v.s # ""
      [] v.t = "number" -> v.s # "0"
      [] v.t = "boolean" -> v.s = "true"
      [] OTHER -> TRUE

Nullish(v) == v.t \in {"undefined", "null"}

\* a ?? b
Coalesce(a, b) == IF Nullish(a) THEN b ELSE a

\* a || b
OrElse(a, b) == IF Truthy(a) THEN a ELSE b

\* String(v), as a template literal converts v
TemplateString(v) ==
    CASE v.t = "object" -> "[object Object]"
      [] v.t = "undefined" -> "undefined"
      [] v.t = "null" -> "null"
      [] OTHER -> v.s

JsonValue(v) ==
    CASE v.t = "string" -> "\"" \o v.s \o "\""
      [] v.t = "object" -> "{}"
      [] v.t = "null" -> "null"
      [] OTHER -> v.s

JsonMember(v, k) ==
    IF k \notin DOMAIN v.f \/ v.f[k].t = "undefined" THEN <<>>
    ELSE << "\"" \o k \o "\":" \o JsonValue(ValueOf(v.f[k])) >>

RECURSIVE JoinComma(_)
JoinComma(ss) ==
    IF ss = <<>> THEN ""
    ELSE IF Len(ss) = 1 THEN ss[1]
    ELSE ss[1] \o "," \o JoinComma(Tail(ss))

\* JSON.stringify of an object of the model (members in declaration order)
JsonStringify(v) ==
    IF v.t = "object"
    THEN "{" \o JoinComma(JsonMember(v, "result") \o JsonMember(v, "score")
                          \o JsonMember(v, "feedback") \o JsonMember(v, "turn")
                          \o JsonMember(v, "maxTurns")) \o "}"
    ELSE JsonValue(v)

\* the text of a number, as String(n) gives it
RECURSIVE NumText(_)
NumText(n) ==
    IF n < 0 THEN "-" \o NumText(0 - n)
    ELSE IF n < 10
    THEN <<"0", "1", "2", "3", "4", "5", "6", "7", "8", "9">>[n + 1]
    ELSE NumText(n \div 10) \o NumText(n % 10)

\* the number a text of the model stands for
NumValue(s) == CHOOSE n \in -9..99 : NumText(n) = s

\* the object o with the fields turn and maxTurns set as well
WithTurnFields(o, t, m) ==
    [o EXCEPT !.f = [k \in FieldNames \cup {"turn", "maxTurns"} |->
                        IF k = "turn" THEN FieldOf(Num(NumText(t)))
                        ELSE IF k = "maxTurns" THEN FieldOf(Num(NumText(m)))
                        ELSE o.f[k]]]

\* the own enumerable keys of a value an object spread copies: the fields
\* of an object that are set, none of null, undefined, a number or a boolean
OwnKeys(v) ==
    IF v.t = "object" THEN {k \in DOMAIN v.f : v.f[k].t # "undefined"} ELSE {}

(* ---------------------------- histories -------------------------------- *)

Msg(role, content) == [role |-> role, content |-> content]

UserPrompt == "prompt"

\* the message the primitive adds to the thread it returns
Reply == Msg("assistant", "reply")

\* res.history of a run: none, or a sequence of messages
NoHistory == [some |-> FALSE, msgs |-> <<>>]

SomeHistory(h) == [some |-> TRUE, msgs |-> h]

\* returned || fallback  (an array, even an empty one, is truthy)
HistoryOr(returned, fallback) ==
    IF returned.some THEN returned.msgs ELSE fallback

(* ------------------------ expression evaluator ------------------------- *)

DefaultPassCondition == "score == \"pass\""

\* the pass conditions explored: the default and one that does not parse
\* (tests/core.branches.test.js)
PassConditions == {DefaultPassCondition, "?invalid"}

\* the review as spread into the context: the own keys of an object; a
\* non-empty string spreads into index keys "0", "1", ..., which are no
\* parameter names
SpreadKeysValid(review) == ~(review.t = "string" /\ review.s # "")

\* a context in which the fields of the review come last and win
Context_ReviewWins(review, turn, maxTurns) ==
    [k \in OwnKeys(review) \cup {"turn", "maxTurns"} |->
        IF k \in OwnKeys(review) THEN review.f[k]
        ELSE IF k = "turn" THEN FieldOf(Num(NumText(turn)))
        ELSE FieldOf(Num(NumText(maxTurns)))]

\* { ...review, turn, maxTurns }: the own keys of the review, then turn and
\* maxTurns, a later key replacing an earlier one of the same name
Context(review, turn, maxTurns) ==
    [k \in OwnKeys(review) \cup {"turn", "maxTurns"} |->
        IF k = "turn" THEN FieldOf(Num(NumText(turn)))
        ELSE IF k = "maxTurns" THEN FieldOf(Num(NumText(maxTurns)))
        ELSE review.f[k]]

\* new Function(...keys, `return (${expr});`)(...values): either the value
\* of the expression or the fact that building or calling the function threw
Evaluate(expr, review, turn, maxTurns) ==
    LET Threw == [threw |-> TRUE, value |-> Undefined]
        Value(v) == [threw |-> FALSE, value |-> v]
        ctx == Context(review, turn, maxTurns)
    IN  CASE ~SpreadKeysValid(review) -> Threw
          [] expr = DefaultPassCondition ->
               IF "score" \notin DOMAIN ctx THEN Threw
               ELSE Value(Bool(ctx["score"].t = "string"
                               /\ ctx["score"].s = "pass"))
          [] expr = "turn >= maxTurns" ->
               Value(Bool(NumValue(ctx["turn"].s) >= NumValue(ctx["maxTurns"].s)))
          [] OTHER -> Threw

\* evalExpr without its catch: an evaluation that threw counts as a pass
evalExpr_Uncaught(expr, review, turn, maxTurns) ==
    LET r == Evaluate(expr, review, turn, maxTurns)
    IN  IF r.threw THEN Bool(TRUE) ELSE r.value

evalExpr(expr, review, turn, maxTurns) ==
    LET r == Evaluate(expr, review, turn, maxTurns)
    IN  IF r.threw THEN Bool(FALSE) ELSE r.value

(* ------------------------------ steps ---------------------------------- *)

\* A step of flow.steps as written in the configuration: "" is a string
\* field that is not set, maxTurns records whether it is a number, and
\* carryHistory is io.carryHistory ("absent" when io or the field is not set).
\* The three references to agents are not set here.
RawStep(type, passCondition, maxTurns, feedbackInjection, carryHistory) ==
    [type |-> type, passCondition |-> passCondition,
     maxTurns |-> [isNumber |-> TRUE, n |-> maxTurns],
     feedbackInjection |-> feedbackInjection, carryHistory |-> carryHistory,
     agentRef |-> "", proposalAgentRef |-> "", reviewerAgentRef |-> ""]

NoStep == RawStep("", "", 0, "", "absent")

\* the step s of a single agent, with its agentRef
WithAgent(s, ref) == [s EXCEPT !.agentRef = ref]

\* the review step s, with its proposalAgentRef and reviewerAgentRef
WithReviewer(s, proposalRef, reviewerRef) ==
    [s EXCEPT !.proposalAgentRef = proposalRef, !.reviewerAgentRef = reviewerRef]

\* the step s with maxTurns left out
WithoutMaxTurns(s) == [s EXCEPT !.maxTurns = [isNumber |-> FALSE, n |-> 0]]

SingleSteps ==
    {WithAgent(RawStep("single_agent", "", 0, "", c), "A") : c \in {"true", "false"}}

ReviewerSteps ==
    {WithReviewer(RawStep("agent_reviewer", p, n, i, c), "A", "B") :
        p \in PassConditions, n \in 1..MaxTurns,
        i \in {"as_user", "as_system", "append_only"}, c \in {"true", "false"}}

OtherSteps == {WithAgent(RawStep("weird", "", 0, "", "absent"), "A")}

\* the steps a flow is made of
Steps == SingleSteps \cup ReviewerSteps \cup OtherSteps

\* a dispatch whose last branch runs the single-agent executor
Dispatch_ElseSingle(type) ==
    IF type = "agent_reviewer" THEN "execAgentReviewer" ELSE "execSingleAgent"

\* the branch of runFlow's loop a step of this type takes
Dispatch(type) ==
    IF type = "single_agent" THEN "execSingleAgent"
    ELSE IF type = "agent_reviewer" THEN "execAgentReviewer"
    ELSE "throw"

\* the message of the error for a step of no known type
UnknownStepMessage(type) == "Unknown step type: " \o type

DefaultMaxTurns == 8

\* a loop that tests its condition only after the first iteration
LoopContinues_DoWhile(turn, maxTurns) == turn = 0 \/ turn < maxTurns

\* a loop that runs while the turn has not passed the budget
LoopContinues_Inclusive(turn, maxTurns) == turn <= maxTurns

\* while (turn < maxTurns)
LoopContinues(turn, maxTurns) == turn < maxTurns

\* the options runFlow hands to the executors
StepCarryHistory(s) == s.carryHistory # "false"

StepPassCondition(s) ==
    IF s.passCondition = "" THEN DefaultPassCondition ELSE s.passCondition

\* maxTurns read off the step without the default
StepMaxTurns_NoDefault(s) == s.maxTurns.n

StepMaxTurns(s) == IF s.maxTurns.isNumber THEN s.maxTurns.n ELSE DefaultMaxTurns

StepFeedbackInjection(s) ==
    IF s.feedbackInjection = "" THEN "as_user" ELSE s.feedbackInjection

(* --------------------------- the primitive ----------------------------- *)

\* what run(agent, history) may answer, by the role of the agent invoked
SingleOutputs ==
    {Undefined, Null, Str("oops"),
     Obj(Str("x"), Undefined, Undefined), Obj(Str("x"), Str("pass"), Undefined),
     Obj(Str(""), Undefined, Undefined), Obj(Undefined, Undefined, Undefined),
     Obj(Num("0"), Undefined, Undefined), Obj(Bool(FALSE), Undefined, Undefined)}

ProposalOutputs ==
    {Undefined, Null, Obj(Str("v1"), Undefined, Undefined)}

ReviewOutputs ==
    {Null, Obj(Str("review-ok"), Str("pass"), Str("looks good")),
     Obj(Undefined, Str("fail"), Str("needs work")),
     Obj(Undefined, Str("fail"), Undefined)}

RunHistories(h) == {NoHistory, SomeHistory(Append(h, Reply))}

RunResult(out, h) == [finalOutput |-> out, history |-> h]

NoRun == RunResult(Undefined, NoHistory)

(* ------------------------ executors' results --------------------------- *)

\* passed is "true" or "false", or "none" where the executor sets none
StepResult(out, h, passed) ==
    [finalOutput |-> out, history |-> h, passed |-> passed]

NoResult == StepResult(Undefined, <<>>, "none")

\* execSingleAgent adopting the returned history whatever carryHistory says
execSingleAgent_AlwaysCarry(res, hist, carryHistory) ==
    StepResult(res.finalOutput, HistoryOr(res.history, hist), "none")

\* execSingleAgent(agent, history, carryHistory), given the run's answer
execSingleAgent(res, hist, carryHistory) ==
    StepResult(res.finalOutput,
               IF carryHistory THEN HistoryOr(res.history, hist) ELSE hist,
               "none")

\* the text after "Feedback: "
FeedbackText(review) ==
    TemplateString(Coalesce(Get(review, "feedback"), Str(JsonStringify(review))))

\* feedback that is a user message whatever the mode
InjectFeedback_AlwaysUser(mode, h, review) ==
    Append(h, Msg("user", "Feedback: " \o FeedbackText(review)))

\* the history after the feedback of a failed review
InjectFeedback(mode, h, review) ==
    CASE mode = "as_system" ->
           Append(h, Msg("system", "Feedback: " \o FeedbackText(review)))
      [] mode = "as_user" ->
           Append(h, Msg("user", "Feedback: " \o FeedbackText(review)))
      [] OTHER -> h

\* a loop that never adopts the history a run returned
Adopt_Never(carryHistory, returned, current) == current

\* feedback pushed onto the array itself
SpreadSource_Push(mode, h, review) == InjectFeedback(mode, h, review)

\* what the array h holds after the feedback statement ran on it: the
\* statement builds [...h, message], a new array, and leaves h as it was
SpreadSource(mode, h, review) == h

\* a and b are one array: a new array is longer than every array before it
\* (a returned history holds the reply, a spread the feedback), so two
\* histories of one run that hold the same messages are the same array
SameArray(a, b) == a = b

\* a loop that adopts the history a run returned whatever carryHistory says
Adopt_Always(carryHistory, returned, current) == HistoryOr(returned, current)

\* the history an executor's loop adopts after a run
Adopt(carryHistory, returned, current) ==
    IF carryHistory THEN HistoryOr(returned, current) ELSE current

\* the return of the review in place of the proposal
ReturnPassed_Review(proposal, review, h) == StepResult(review, h, "true")

\* execAgentReviewer's return when the pass check holds, from the locals in
\* scope there
ReturnPassed(proposal, review, h) == StepResult(proposal, h, "true")

\* the return after the loop without the proposal
ReturnExhausted_NoProposal(proposal, h) == StepResult(Null, h, "false")

\* execAgentReviewer's return after the loop
ReturnExhausted(proposal, h) == StepResult(proposal, h, "false")

\* the review object: rev.finalOutput || {}
ReviewOf(out) == OrElse(out, Obj(Undefined, Undefined, Undefined))

(* --------------------------- configuration ----------------------------- *)

\* the names config.outputSchemas may declare, in declaration order
SchemaNames == <<"basic", "extra">>

\* a schema of config.outputSchemas: not declared, well formed, without
\* properties.result, or with it but without "result" in required
SchemaKinds == {"absent", "ok", "noResultProperty", "resultNotRequired"}

\* the ids config.agents may declare, in declaration order
AgentIds == <<"A", "B">>

\* an agent of config.agents, by its outputSchemaRef: "absent" is an agent
\* that is not declared, "" one without outputSchemaRef
AgentSpecs == {"absent", "", "basic", "extra"}

\* the ids config.mcpServers may declare, in declaration order
ServerIds == <<"proc", "svc">>

\* a server of config.mcpServers, by its type ("absent": not declared)
ServerTypes == {"absent", "stdio", "http", "HTTP", "sse"}

Range(seq) == {seq[i] : i \in 1..Len(seq)}

\* the first message of a sequence of checks ("" is a check that passed)
RECURSIVE FirstMessage(_)
FirstMessage(ms) ==
    IF ms = <<>> THEN ""
    ELSE IF ms[1] # "" THEN ms[1]
    ELSE FirstMessage(Tail(ms))

\* the checks of one output schema without that of required
SchemaMessage_PropertyOnly(name, kind) ==
    IF kind = "noResultProperty"
    THEN "Output schema \"" \o name \o "\" must have \"result\" property"
    ELSE ""

\* validateConfig's checks of one output schema
SchemaMessage(name, kind) ==
    IF kind = "noResultProperty"
    THEN "Output schema \"" \o name \o "\" must have \"result\" property"
    ELSE IF kind = "resultNotRequired"
    THEN "Output schema \"" \o name \o "\" must require \"result\""
    ELSE ""

\* validateConfig's checks of one agent
AgentMessage(id, ref, outputSchemas) ==
    IF ref = "absent" THEN ""
    ELSE IF ref = "" THEN "Agent \"" \o id \o "\" must have outputSchemaRef"
    ELSE IF outputSchemas[ref] = "absent"
    THEN "Agent \"" \o id \o "\" references unknown schema \"" \o ref \o "\""
    ELSE ""

\* validateConfig's two loops: over the schemas, then over the agents
DefinitionMessages(c) ==
    [i \in 1..Len(SchemaNames) |->
        SchemaMessage(SchemaNames[i], c.outputSchemas[SchemaNames[i]])]
    \o [i \in 1..Len(AgentIds) |->
        AgentMessage(AgentIds[i], c.agents[AgentIds[i]], c.outputSchemas)]

\* validateConfig without its check of flow
validateConfig_NoFlowCheck(c) ==
    IF c.nSteps = 0 THEN "Flow must contain at least one step"
    ELSE FirstMessage(DefinitionMessages(c))

\* validateConfig without its check of flow.steps
validateConfig_NoStepCheck(c) ==
    IF ~c.flow THEN "Configuration must contain a \"flow\" property"
    ELSE FirstMessage(DefinitionMessages(c))

\* validateConfig(config): the message of the error it throws, "" for none
validateConfig(c) ==
    IF ~c.flow THEN "Configuration must contain a \"flow\" property"
    ELSE IF c.nSteps = 0 THEN "Flow must contain at least one step"
    ELSE FirstMessage(DefinitionMessages(c))

\* String.prototype.toLowerCase, on the strings explored
ToLowerCase(type) ==
    CASE type = "HTTP" -> "http"
      [] type = "Exit" -> "exit"
      [] type = "QUIT" -> "quit"
      [] type = ":Q" -> ":q"
      [] OTHER -> type

\* a registry that takes every type but stdio for a url
McpEntry_ElseUrl(type) ==
    IF ToLowerCase(type) = "stdio" THEN "MCPServerStdio"
    ELSE IF type = "absent" THEN "none"
    ELSE "url"

\* the registry entry of a server: a subprocess handle, the url, or none
McpEntry(type) ==
    IF ToLowerCase(type) = "stdio" THEN "MCPServerStdio"
    ELSE IF ToLowerCase(type) = "http" THEN "url"
    ELSE "none"

\* buildMcpServers(mcpConfig) up to its await: the registry and the servers
\* whose connect() it has called
buildMcpServers(mcpConfig) ==
    [mcp |-> [id \in DOMAIN mcpConfig |-> McpEntry(mcpConfig[id])],
     connects |-> {id \in DOMAIN mcpConfig : ToLowerCase(mcpConfig[id]) = "stdio"}]

NoRegistry == [id \in Range(ServerIds) |-> "none"]

\* jsonSchemaToZod(outputSchemas[ref]): the output type of an agent, named
\* after its schema, or "any" (z.any()) where there is no such schema
OutputType(ref, outputSchemas) ==
    IF ref \in DOMAIN outputSchemas /\ outputSchemas[ref] # "absent" THEN ref
    ELSE "any"

\* buildAgents(agentsConfig, mcpRegistry, outputSchemas): the handle of each
\* agent, by its output type ("none": no handle)
buildAgents(agentsConfig, mcpRegistry, outputSchemas) ==
    [id \in DOMAIN agentsConfig |->
        IF agentsConfig[id] = "absent" THEN "none"
        ELSE OutputType(agentsConfig[id], outputSchemas)]

NoAgents == [id \in Range(AgentIds) |-> "none"]

\* an entry of an agent's tools: its kind, the agent it refers to and its
\* id ("" where the entry has none)
ToolEntry(kind, ref, id) == [kind |-> kind, ref |-> ref, id |-> id]

ToolKinds == {"agent", "function", "weird"}

ToolRefs == {"A", "B", "ghost"}

ToolIds == {"", "helpTool"}

ToolEntries == [kind : ToolKinds, ref : ToolRefs, id : ToolIds]

MaxTools == 3

ToolLists == UNION {[1..n -> ToolEntries] : n \in 0..MaxTools}

\* base[t.ref].asTool({ toolName: t.id || t.ref, ... }): the tool, by its
\* name and the agent behind it
AsTool(t) ==
    [toolName |-> IF t.id # "" THEN t.id ELSE t.ref, agent |-> t.ref]

\* the same that names every tool by the agent it refers to
AgentTools_NamedByRef(entries, base) ==
    LET keep == {i \in DOMAIN entries : entries[i].kind = "agent" /\ entries[i].ref \in base}
        F[i \in 0..Len(entries)] ==
            IF i = 0 THEN <<>>
            ELSE IF i \in keep
                 THEN Append(F[i - 1], [toolName |-> entries[i].ref, agent |-> entries[i].ref])
                 ELSE F[i - 1]
    IN F[Len(entries)]

\* the tools that buildAgents's second loop collects for one agent: one for
\* each entry of kind agent whose ref is in base, in the order of the entries
AgentTools(entries, base) ==
    LET F[i \in 0..Len(entries)] ==
            IF i = 0 THEN <<>>
            ELSE IF entries[i].kind = "agent" /\ entries[i].ref \in base
                 THEN Append(F[i - 1], AsTool(entries[i]))
                 ELSE F[i - 1]
    IN F[Len(entries)]

\* the tools of the agents that buildAgents returns
buildTools(agentsConfig, toolsConfig) ==
    LET base == {id \in DOMAIN agentsConfig : agentsConfig[id] # "absent"}
    IN [id \in DOMAIN agentsConfig |->
           IF id \in base THEN AgentTools(toolsConfig[id], base) ELSE <<>>]

NoTools == [id \in Range(AgentIds) |-> <<>>]

\* the tools of the configurations whose flows are explored: one agent that
\* has the other as a tool
HelperTools ==
    [id \in Range(AgentIds) |->
        IF id = "A" THEN <<ToolEntry("agent", "B", "helpTool")>> ELSE <<>>]

\* agents[ref], by the id of the agent ("undefined" where there is none)
Lookup(agentsBuilt, ref) ==
    IF ref \in DOMAIN agentsBuilt /\ agentsBuilt[ref] # "none" THEN ref
    ELSE "undefined"

NoConnects == [id \in Range(ServerIds) |-> "none"]

(* ------------------------- the process and the call -------------------- *)

\* String.prototype.trim, on the strings explored
Trim(str) ==
    CASE str \in {" ", "  "} -> ""
      [] str = " Exit " -> "Exit"
      [] str = " hello " -> "hello"
      [] OTHER -> str

\* the keys explored: none, a blank one and well-formed ones
Keys == {"", "  ", "sk-test", "sk-one", "sk-two"}

KeyMessage == "Missing OpenAI API key. Provide --api-key or set OPENAI_API_KEY."

\* the same that checks the environment before it takes the explicit key
ensureOpenAIKey_EnvFirst(explicitKey, env) ==
    LET key == IF Trim(env) # "" THEN env
               ELSE IF explicitKey # "" THEN explicitKey ELSE env
    IN [env |-> key, threw |-> Trim(key) = "", key |-> key]

\* ensureOpenAIKey(explicitKey) where process.env.OPENAI_API_KEY is env: the
\* value it leaves in the environment, whether it throws, and the key it
\* returns if it does not
ensureOpenAIKey(explicitKey, env) ==
    LET key == IF explicitKey # "" THEN explicitKey ELSE env
    IN [env |-> key, threw |-> Trim(key) = "", key |-> key]

\* the entry of keyLog for a call
KeyCall(explicitKey, env) ==
    [explicitKey |-> explicitKey,
     threw |-> ensureOpenAIKey(explicitKey, env).threw,
     key |-> ensureOpenAIKey(explicitKey, env).key]

\* the arguments of a call of runFlow without options: opts.apiKey is not
\* set ("")
RunFlowArgs ==
    [entry |-> "runFlow", userPrompt |-> UserPrompt, apiKey |-> "",
     deleteFileAfter |-> "absent"]

NoFile == [id |-> "", uploads |-> 0, deletes |-> 0, warnings |-> 0,
           fileId |-> ""]

\* the entry points that upload a file
FileEntries == {"runFlowWithFile", "runFlowWithFileBuffer"}

\* the values of opts.deleteFileAfter
DeleteOptions == {"absent", "true", "false"}

\* the id of the file that client.files.create returns
FileId == "file-123"

UploadMessage == "Failed to upload file: upload failed"

\* the content of the message that seeds the history: the parts input_file
\* and input_text, written out
FileContent(id, text) == "[input_file " \o id \o "][input_text " \o text \o "]"

NoActivation == <<>>

\* validateSystem before it is called: nothing collected, nothing looked at
NoSys ==
    [at |-> "idle", errors |-> <<>>, warnings |-> <<>>, ret |-> "none",
     major |-> 0, readable |-> TRUE, content |-> "none",
     servers |-> [id \in {"proc", "svc"} |->
                    [type |-> "absent", fullCommand |-> "", url |-> ""]]]

\* runPromptLoop before it is called: the lines to come, none of them read
PromptOn(lines, apiKey) ==
    [at |-> "idle", lines |-> lines, pos |-> 0, ran |-> <<>>, logged |-> <<>>,
     created |-> FALSE, open |-> FALSE, closes |-> 0, apiKey |-> apiKey]

NoPrompt == PromptOn(<<>>, "")

\* runParser before it is called with the explicit key apiKey ("": none)
ParserOn(apiKey) == [at |-> "idle", apiKey |-> apiKey]

NoParser == ParserOn("")

\* run-flow.mjs's execAgentReviewer before it is called
NoScript ==
    [at |-> "idle", turn |-> 0, lastProposal |-> Null, nextHistory |-> <<>>,
     nCalls |-> 0, agent |-> "undefined", arg |-> <<>>,
     result |-> StepResult(Undefined, <<>>, "none")]

(* ------------------------------ state ---------------------------------- *)

VARIABLES
    pc,             \* where runFlow is
    config,         \* flow: config.flow is set; nSteps: flow.steps.length
                    \* (0 when steps is not set); outputSchemas, agents,
                    \* mcpServers: what the configuration declares
    mcpRegistry,    \* runFlow's mcpRegistry
    connecting,     \* the servers whose connect() has been called
    agents,         \* runFlow's agents
    runAgent,       \* the agent handed to the latest invocation
    runArg,         \* the history handed to the latest invocation
    stepIdx,        \* steps of flow.steps completed
    step,           \* the step being executed
    history,        \* runFlow's history
    currentOutput,  \* runFlow's currentOutput
    histArg,        \* the executor's history parameter
    turn,           \* execAgentReviewer's locals
    lastProposal,
    nextHistory,
    prop,           \* the latest answer of the proposal agent
    rev,            \* the latest answer of the reviewer
    res,            \* execSingleAgent's local: the answer of the agent
    pass,           \* whether the latest pass check held
    stepResult,     \* what the executor returned
    nProp,          \* invocations of the proposal agent in this step
    nRev,           \* invocations of the reviewer in this step
    nThrew,         \* pass checks of this step whose evaluation threw
    nCalls,         \* invocations of the primitive by this step's executor
    nRuns,          \* invocations of the primitive in this run of the flow
    nRejected,      \* those of them that rejected
    allNull,        \* every invocation of the run so far answered null
    retVal,         \* the value runFlow returned
    err,            \* the message of the error runFlow threw
    settled,        \* what became of each server's connect()
    agentTools,     \* the tools of each agent that buildAgents returned
    envKey,         \* process.env.OPENAI_API_KEY ("": not set)
    keyLog,         \* the calls of ensureOpenAIKey so far, in order
    args,           \* the entry point called, and its arguments
    file,           \* the uploaded file, and the calls made about it
    active,         \* the activation of runFlow that is executing
    parked,         \* the locals of the activation that is suspended
    sys,            \* validateSystem's locals and its result
    prompt,         \* runPromptLoop's locals and the terminal
    parser,         \* where runParser is, or how it ended
    script          \* run-flow.mjs's execAgentReviewer, run beside core.mjs's

vars == <<pc, config, mcpRegistry, connecting, agents, runAgent, runArg, stepIdx, step, history, currentOutput, histArg, turn,
          lastProposal, nextHistory, prop, rev, res, pass, stepResult, nProp,
          nRev, nThrew, nCalls, nRuns, nRejected, allNull, retVal, err, settled,
          agentTools, envKey, keyLog, args, file, active, parked, sys, prompt,
          parser, script>>

flowVars == <<history, currentOutput, stepIdx>>

setupVars == <<mcpRegistry, connecting, agents, settled, agentTools>>

keyVars == <<envKey, keyLog>>

callVars == <<args, file, active, parked, sys, prompt, parser, script>>

\* what the actions of a run that goes well leave alone
hostVars == <<envKey, keyLog, args, file, active, parked, sys, prompt, parser,
             script,
              nRejected>>

runVars == <<runAgent, runArg>>

frameVars == <<step, histArg, turn, lastProposal, nextHistory, prop, rev, res,
               pass, stepResult, nProp, nRev, nThrew, nCalls, runAgent, runArg>>

\* everything that belongs to a call of runFlow
runState == <<pc, config, nRuns, allNull, retVal, err, setupVars, flowVars,
              frameVars>>

\* the configurations whose flows are explored: two agents on one schema,
\* one server of each kind
Configs ==
    [flow : BOOLEAN, nSteps : 0..MaxSteps,
     outputSchemas : {[n \in Range(SchemaNames) |->
                         IF n = "basic" THEN "ok" ELSE "absent"]},
     agents : {[id \in Range(AgentIds) |-> "basic"]},
     mcpServers : {[id \in Range(ServerIds) |->
                      IF id = "proc" THEN "stdio" ELSE "http"]},
     tools : {HelperTools}]

\* the configurations whose set-up is explored
SetupConfigs ==
    [flow : BOOLEAN, nSteps : 0..MaxSteps,
     outputSchemas : [Range(SchemaNames) -> SchemaKinds],
     agents : [Range(AgentIds) -> AgentSpecs],
     mcpServers : [Range(ServerIds) -> ServerTypes],
     tools : {HelperTools}]

ClearFrame ==
    /\ step' = NoStep
    /\ histArg' = <<>>
    /\ turn' = 0
    /\ lastProposal' = Null
    /\ nextHistory' = <<>>
    /\ prop' = NoRun
    /\ rev' = NoRun
    /\ res' = NoRun
    /\ pass' = FALSE
    /\ stepResult' = NoResult
    /\ nProp' = 0
    /\ nRev' = 0
    /\ nThrew' = 0
    /\ nCalls' = 0
    /\ runAgent' = "undefined"
    /\ runArg' = <<>>

\* the state before the call, whatever the configuration
InitState ==
    /\ pc = "start"
    /\ mcpRegistry = NoRegistry
    /\ connecting = {}
    /\ agents = NoAgents
    /\ runAgent = "undefined"
    /\ runArg = <<>>
    /\ stepIdx = 0
    /\ step = NoStep
    /\ history = <<>>
    /\ currentOutput = Null
    /\ histArg = <<>>
    /\ turn = 0
    /\ lastProposal = Null
    /\ nextHistory = <<>>
    /\ prop = NoRun
    /\ rev = NoRun
    /\ res = NoRun
    /\ pass = FALSE
    /\ stepResult = NoResult
    /\ nProp = 0
    /\ nRev = 0
    /\ nThrew = 0
    /\ nCalls = 0
    /\ nRuns = 0
    /\ nRejected = 0
    /\ allNull = TRUE
    /\ retVal = Undefined
    /\ err = ""
    /\ settled = NoConnects
    /\ agentTools = NoTools

\* the process and the call as the tests of runFlow set them: a key in the
\* environment, no options
InitHost ==
    /\ envKey = "sk-test"
    /\ keyLog = <<>>
    /\ args = RunFlowArgs
    /\ file = NoFile
    /\ active = 1
    /\ parked = NoActivation
    /\ sys = NoSys
    /\ parser = NoParser
    /\ script = NoScript
    /\ prompt = NoPrompt

Init ==
    /\ config \in {c \in Configs : c.flow \/ c.nSteps = 0}
    /\ InitState
    /\ InitHost

(* ----------------------------- runFlow --------------------------------- *)

\* the error of a connection that is refused
ConnectMessage == "MCP server failed to connect"

Throw(message) ==
    /\ pc' = "failed"
    /\ err' = message
    /\ UNCHANGED retVal

Return(value) ==
    /\ pc' = "returned"
    /\ retVal' = value
    /\ UNCHANGED err

\* ensureOpenAIKey called on its own (it is exported, and runPromptLoop
\* calls it)
EnsureKey(explicitKey) ==
    /\ envKey' = ensureOpenAIKey(explicitKey, envKey).env
    /\ keyLog' = Append(keyLog, KeyCall(explicitKey, envKey))
    /\ UNCHANGED callVars
    /\ UNCHANGED nRejected
    /\ UNCHANGED <<pc, config, nRuns, allNull, retVal, err>>
    /\ UNCHANGED setupVars
    /\ UNCHANGED flowVars
    /\ UNCHANGED frameVars

\* the same that validates the configuration before it looks at the key
StartFlow_ValidateFirst ==
    /\ UNCHANGED nRejected
    /\ args.entry = "runFlow"
    /\ pc = "start"
    /\ envKey' = ensureOpenAIKey(args.apiKey, envKey).env
    /\ keyLog' = Append(keyLog, KeyCall(args.apiKey, envKey))
    /\ IF validateConfig(config) # ""
       THEN Throw(validateConfig(config))
       ELSE IF ensureOpenAIKey(args.apiKey, envKey).threw
       THEN Throw(KeyMessage)
       ELSE /\ pc' = "connect"
            /\ UNCHANGED <<retVal, err>>
    /\ UNCHANGED <<config, nRuns, allNull>>
    /\ UNCHANGED setupVars
    /\ UNCHANGED flowVars
    /\ UNCHANGED frameVars
    /\ UNCHANGED callVars

\* runFlow up to the set-up of its registries: the key, then the validation
StartFlow ==
    /\ UNCHANGED nRejected
    /\ args.entry = "runFlow"
    /\ pc = "start"
    /\ envKey' = ensureOpenAIKey(args.apiKey, envKey).env
    /\ keyLog' = Append(keyLog, KeyCall(args.apiKey, envKey))
    /\ IF ensureOpenAIKey(args.apiKey, envKey).threw
       THEN Throw(KeyMessage)
       ELSE IF validateConfig(config) # ""
       THEN Throw(validateConfig(config))
       ELSE /\ pc' = "connect"
            /\ UNCHANGED <<retVal, err>>
    /\ UNCHANGED <<config, nRuns, allNull>>
    /\ UNCHANGED setupVars
    /\ UNCHANGED flowVars
    /\ UNCHANGED frameVars
    /\ UNCHANGED callVars

\* buildMcpServers up to its await: the registry is filled and connect() is
\* called on every subprocess server
ConnectServers ==
    /\ pc = "connect"
    /\ mcpRegistry' = buildMcpServers(config.mcpServers).mcp
    /\ connecting' = buildMcpServers(config.mcpServers).connects
    /\ settled' = [id \in Range(ServerIds) |->
                      IF id \in buildMcpServers(config.mcpServers).connects
                      THEN "pending" ELSE "none"]
    /\ pc' = "await"
    /\ UNCHANGED <<config, agents, agentTools, nRuns, allNull, retVal, err>>
    /\ UNCHANGED flowVars
    /\ UNCHANGED frameVars
    /\ UNCHANGED hostVars

\* a connect() that was called settles: the server is connected, or it
\* refuses
SettleConnect(id, connected) ==
    /\ pc = "await"
    /\ settled[id] = "pending"
    /\ settled' = [settled EXCEPT ![id] = IF connected THEN "resolved"
                                          ELSE "rejected"]
    /\ UNCHANGED <<pc, config, mcpRegistry, connecting, agents, agentTools,
                   nRuns, allNull, retVal, err>>
    /\ UNCHANGED flowVars
    /\ UNCHANGED frameVars
    /\ UNCHANGED hostVars

Rejected == {id \in Range(ServerIds) : settled[id] = "rejected"}

Pending == {id \in Range(ServerIds) : settled[id] = "pending"}

\* the same that goes on as soon as one connection is made
AwaitConnects_Any ==
    /\ pc = "await"
    /\ \/ connecting = {}
       \/ \E id \in connecting : settled[id] = "resolved"
    /\ pc' = "build"
    /\ UNCHANGED <<retVal, err>>
    /\ UNCHANGED <<config, nRuns, allNull>>
    /\ UNCHANGED setupVars
    /\ UNCHANGED flowVars
    /\ UNCHANGED frameVars
    /\ UNCHANGED hostVars

\* await Promise.all(connects): it resolves when every connection is made,
\* and rejects, and runFlow with it, as soon as one is refused
AwaitConnects ==
    /\ pc = "await"
    /\ Rejected # {} \/ Pending = {}
    /\ IF Rejected = {}
       THEN /\ pc' = "build"
            /\ UNCHANGED <<retVal, err>>
       ELSE Throw(ConnectMessage)
    /\ UNCHANGED <<config, nRuns, allNull>>
    /\ UNCHANGED setupVars
    /\ UNCHANGED flowVars
    /\ UNCHANGED frameVars
    /\ UNCHANGED hostVars

\* buildAgents, and runFlow up to its loop over the steps
BuildAgents ==
    /\ args.entry = "runFlow"
    /\ pc = "build"
    /\ agents' = buildAgents(config.agents, mcpRegistry, config.outputSchemas)
    /\ agentTools' = buildTools(config.agents, config.tools)
    /\ history' = <<Msg("user", args.userPrompt)>>
    /\ currentOutput' = Null
    /\ pc' = "loop"
    /\ UNCHANGED <<config, mcpRegistry, connecting, settled, stepIdx, nRuns,
                   allNull, retVal, err>>
    /\ UNCHANGED frameVars
    /\ UNCHANGED hostVars

\* buildAgents called on its own (it is exported), on the configuration's
\* agents and schemas and an empty registry
CallBuildAgents ==
    /\ pc = "start"
    /\ agents' = buildAgents(config.agents, NoRegistry, config.outputSchemas)
    /\ agentTools' = buildTools(config.agents, config.tools)
    /\ pc' = "built"
    /\ UNCHANGED <<config, mcpRegistry, connecting, settled, nRuns, allNull,
                   retVal, err>>
    /\ UNCHANGED flowVars
    /\ UNCHANGED frameVars
    /\ UNCHANGED hostVars

\* a single_agent step: execSingleAgent around one run of the agent
SingleAgentStep(s, out, h) ==
    /\ pc = "loop"
    /\ nRuns' = nRuns + 1
    /\ stepIdx < config.nSteps
    /\ Dispatch(s.type) = "execSingleAgent"
    /\ step' = s
    /\ histArg' = history
    /\ runAgent' = Lookup(agents, s.agentRef)
    /\ runArg' = history
    /\ res' = RunResult(out, h)
    /\ nCalls' = 1
    /\ stepResult' = execSingleAgent(RunResult(out, h), history, StepCarryHistory(s))
    /\ allNull' = (allNull /\ out = Null)
    /\ pc' = "assign"
    /\ UNCHANGED <<config, retVal, err>>
    /\ UNCHANGED setupVars
    /\ UNCHANGED flowVars
    /\ UNCHANGED <<turn, lastProposal, nextHistory, prop, rev, pass, nProp, nRev,
                   nThrew>>
    /\ UNCHANGED hostVars

\* an agent_reviewer step: execAgentReviewer up to its loop
BeginReviewer(s) ==
    /\ pc = "loop"
    /\ stepIdx < config.nSteps
    /\ Dispatch(s.type) = "execAgentReviewer"
    /\ step' = s
    /\ histArg' = history
    /\ turn' = 0
    /\ lastProposal' = Null
    /\ nextHistory' = history
    /\ pc' = "while"
    /\ UNCHANGED <<config, nRuns, allNull, retVal, err>>
    /\ UNCHANGED setupVars
    /\ UNCHANGED flowVars
    /\ UNCHANGED runVars
    /\ UNCHANGED <<prop, rev, res, pass, stepResult, nProp, nRev, nThrew, nCalls>>
    /\ UNCHANGED hostVars

\* one iteration of the loop up to the proposal's answer
Propose(out, h) ==
    /\ pc = "while"
    /\ nRuns' = nRuns + 1
    /\ LoopContinues(turn, StepMaxTurns(step))
    /\ turn' = turn + 1
    /\ runAgent' = Lookup(agents, step.proposalAgentRef)
    /\ runArg' = nextHistory
    /\ prop' = RunResult(out, h)
    /\ lastProposal' = Coalesce(out, Null)
    /\ nextHistory' = Adopt(StepCarryHistory(step), h, nextHistory)
    /\ nProp' = nProp + 1
    /\ nCalls' = nCalls + 1
    /\ allNull' = (allNull /\ out = Null)
    /\ pc' = "review"
    /\ UNCHANGED <<config, retVal, err>>
    /\ UNCHANGED setupVars
    /\ UNCHANGED flowVars
    /\ UNCHANGED <<step, histArg, rev, res, pass, stepResult, nRev, nThrew>>
    /\ UNCHANGED hostVars

\* the rest of the iteration: the review, the pass check, and either the
\* return of the proposal or the feedback
Review(out, h) ==
    LET review == ReviewOf(out)
        adopted == Adopt(StepCarryHistory(step), h, nextHistory)
        expr == StepPassCondition(step)
        ok == Truthy(evalExpr(expr, review, turn, StepMaxTurns(step)))
    IN  /\ pc = "review"
        /\ nRuns' = nRuns + 1
        /\ runAgent' = Lookup(agents, step.reviewerAgentRef)
        /\ runArg' = nextHistory
        /\ rev' = RunResult(out, h)
        /\ nRev' = nRev + 1
        /\ nCalls' = nCalls + 1
        /\ nThrew' = IF Evaluate(expr, review, turn, StepMaxTurns(step)).threw
                     THEN nThrew + 1 ELSE nThrew
        /\ pass' = ok
        /\ allNull' = (allNull /\ out = Null)
        /\ IF ok
           THEN /\ stepResult' = ReturnPassed(lastProposal, review, adopted)
                /\ nextHistory' = adopted
                /\ pc' = "assign"
           ELSE /\ nextHistory' =
                      InjectFeedback(StepFeedbackInjection(step), adopted, review)
                /\ pc' = "while"
                /\ UNCHANGED stepResult
        /\ history' = IF ~ok /\ SameArray(adopted, history)
                      THEN SpreadSource(StepFeedbackInjection(step), history,
                                        review)
                      ELSE history
        /\ UNCHANGED <<config, retVal, err>>
        /\ UNCHANGED setupVars
        /\ UNCHANGED <<currentOutput, stepIdx>>
        /\ UNCHANGED <<step, histArg, turn, lastProposal, prop, res, nProp>>
        /\ UNCHANGED hostVars

\* the error of an invocation that rejects
RunMessage == "run failed"

\* a single_agent step whose invocation rejects: execSingleAgent and runFlow
\* reject with it
SingleAgentRejects(s) ==
    /\ UNCHANGED callVars
    /\ pc = "loop"
    /\ stepIdx < config.nSteps
    /\ Dispatch(s.type) = "execSingleAgent"
    /\ nRuns' = nRuns + 1
    /\ nRejected' = nRejected + 1
    /\ step' = s
    /\ histArg' = history
    /\ runAgent' = Lookup(agents, s.agentRef)
    /\ runArg' = history
    /\ nCalls' = 1
    /\ Throw(RunMessage)
    /\ UNCHANGED <<config, allNull>>
    /\ UNCHANGED setupVars
    /\ UNCHANGED flowVars
    /\ UNCHANGED <<turn, lastProposal, nextHistory, prop, rev, res, pass,
                   stepResult, nProp, nRev, nThrew>>
    /\ UNCHANGED keyVars

\* a loop that calls the proposal agent again when its invocation rejects
ProposeRejects_Retry ==
    /\ UNCHANGED callVars
    /\ pc = "while"
    /\ LoopContinues(turn, StepMaxTurns(step))
    /\ nRuns' = nRuns + 1
    /\ nRejected' = nRejected + 1
    /\ runAgent' = Lookup(agents, step.proposalAgentRef)
    /\ runArg' = nextHistory
    /\ nProp' = nProp + 1
    /\ nCalls' = nCalls + 1
    /\ UNCHANGED <<pc, retVal, err>>
    /\ UNCHANGED <<config, allNull>>
    /\ UNCHANGED setupVars
    /\ UNCHANGED flowVars
    /\ UNCHANGED <<step, histArg, turn, lastProposal, nextHistory, prop, rev,
                   res, pass, stepResult, nRev, nThrew>>
    /\ UNCHANGED keyVars

\* the invocation of the proposal agent rejects: execAgentReviewer and
\* runFlow reject with it
ProposeRejects ==
    /\ UNCHANGED callVars
    /\ pc = "while"
    /\ LoopContinues(turn, StepMaxTurns(step))
    /\ turn' = turn + 1
    /\ nRuns' = nRuns + 1
    /\ nRejected' = nRejected + 1
    /\ runAgent' = Lookup(agents, step.proposalAgentRef)
    /\ runArg' = nextHistory
    /\ nProp' = nProp + 1
    /\ nCalls' = nCalls + 1
    /\ Throw(RunMessage)
    /\ UNCHANGED <<config, allNull>>
    /\ UNCHANGED setupVars
    /\ UNCHANGED flowVars
    /\ UNCHANGED <<step, histArg, lastProposal, nextHistory, prop, rev, res,
                   pass, stepResult, nRev, nThrew>>
    /\ UNCHANGED keyVars

\* the invocation of the reviewer rejects, likewise
ReviewRejects ==
    /\ UNCHANGED callVars
    /\ pc = "review"
    /\ nRuns' = nRuns + 1
    /\ nRejected' = nRejected + 1
    /\ runAgent' = Lookup(agents, step.reviewerAgentRef)
    /\ runArg' = nextHistory
    /\ nRev' = nRev + 1
    /\ nCalls' = nCalls + 1
    /\ Throw(RunMessage)
    /\ UNCHANGED <<config, allNull>>
    /\ UNCHANGED setupVars
    /\ UNCHANGED flowVars
    /\ UNCHANGED <<step, histArg, turn, lastProposal, nextHistory, prop, rev,
                   res, pass, stepResult, nProp, nThrew>>
    /\ UNCHANGED keyVars

\* the loop ends with the turns used up
Exhaust ==
    /\ pc = "while"
    /\ ~LoopContinues(turn, StepMaxTurns(step))
    /\ stepResult' = ReturnExhausted(lastProposal, nextHistory)
    /\ pc' = "assign"
    /\ UNCHANGED <<config, nRuns, allNull, retVal, err>>
    /\ UNCHANGED setupVars
    /\ UNCHANGED flowVars
    /\ UNCHANGED runVars
    /\ UNCHANGED <<step, histArg, turn, lastProposal, nextHistory, prop, rev,
                   res, pass, nProp, nRev, nThrew, nCalls>>
    /\ UNCHANGED hostVars

\* a runFlow that stops at a review that did not pass
AssignStep_HaltOnFail ==
    /\ pc = "assign"
    /\ IF stepResult.passed = "false"
       THEN /\ Throw("Review did not pass")
            /\ UNCHANGED flowVars
            /\ UNCHANGED frameVars
       ELSE /\ currentOutput' = stepResult.finalOutput
            /\ history' = stepResult.history
            /\ stepIdx' = stepIdx + 1
            /\ ClearFrame
            /\ pc' = "loop"
            /\ UNCHANGED <<retVal, err>>
    /\ UNCHANGED <<config, nRuns, allNull>>
    /\ UNCHANGED setupVars
    /\ UNCHANGED hostVars

\* a runFlow that keeps the output of an earlier step when a step yields none
AssignStep_KeepEarlier ==
    /\ pc = "assign"
    /\ currentOutput' = IF stepResult.finalOutput = Null THEN currentOutput
                        ELSE stepResult.finalOutput
    /\ history' = stepResult.history
    /\ stepIdx' = stepIdx + 1
    /\ ClearFrame
    /\ pc' = "loop"
    /\ UNCHANGED <<config, nRuns, allNull, retVal, err>>
    /\ UNCHANGED setupVars
    /\ UNCHANGED hostVars

\* runFlow takes the executor's result and goes on to the next step
AssignStep ==
    /\ pc = "assign"
    /\ currentOutput' = stepResult.finalOutput
    /\ history' = stepResult.history
    /\ stepIdx' = stepIdx + 1
    /\ ClearFrame
    /\ pc' = "loop"
    /\ UNCHANGED <<config, nRuns, allNull, retVal, err>>
    /\ UNCHANGED setupVars
    /\ UNCHANGED hostVars

\* a step of any other type
UnknownStep(s) ==
    /\ pc = "loop"
    /\ stepIdx < config.nSteps
    /\ Dispatch(s.type) = "throw"
    /\ step' = s
    /\ Throw(UnknownStepMessage(s.type))
    /\ UNCHANGED <<config, nRuns, allNull>>
    /\ UNCHANGED setupVars
    /\ UNCHANGED flowVars
    /\ UNCHANGED runVars
    /\ UNCHANGED <<histArg, turn, lastProposal, nextHistory, prop, rev, res,
                   pass, stepResult, nProp, nRev, nThrew, nCalls>>
    /\ UNCHANGED hostVars

Returns(v) == [threw |-> FALSE, value |-> v, message |-> ""]

Throws(m) == [threw |-> TRUE, value |-> Undefined, message |-> m]

\* standardization that returns only the result field
standardize_ResultOnly(out) ==
    IF out = Null THEN Returns(Obj(Str(""), Undefined, Undefined))
    ELSE IF out.t = "string"
    THEN Throws("Output must be an object with a required \"result\" property")
    ELSE IF ~Truthy(Get(out, "result")) THEN Throws("Output must include \"result\"")
    ELSE Returns(Obj(Get(out, "result"), Undefined, Undefined))

\* standardization that asks only for result to be set
standardize_PresenceOnly(out) ==
    IF out = Null THEN Returns(Obj(Str(""), Undefined, Undefined))
    ELSE IF out.t = "string"
    THEN Throws("Output must be an object with a required \"result\" property")
    ELSE IF Get(out, "result").t = "undefined"
    THEN Throws("Output must include \"result\"")
    ELSE Returns(out)

\* standardization without the check of strings
standardize_NoStringCheck(out) ==
    IF out = Null THEN Returns(Obj(Str(""), Undefined, Undefined))
    ELSE IF out.t = "string" THEN Returns(out)
    ELSE IF ~Truthy(Get(out, "result")) THEN Throws("Output must include \"result\"")
    ELSE Returns(out)

\* standardization without the case of no output
standardize_NoNullCase(out) ==
    IF out.t = "string"
    THEN Throws("Output must be an object with a required \"result\" property")
    ELSE IF Nullish(out)
    THEN Throws("TypeError: Cannot read properties of null (reading 'result')")
    ELSE IF ~Truthy(Get(out, "result")) THEN Throws("Output must include \"result\"")
    ELSE Returns(out)

\* the value runFlow returns for the final output, or the error it throws
standardize(out) ==
    IF out = Null THEN Returns(Obj(Str(""), Undefined, Undefined))
    ELSE IF out.t = "string"
    THEN Throws("Output must be an object with a required \"result\" property")
    ELSE IF out.t = "undefined"
    THEN Throws("TypeError: Cannot read properties of undefined (reading 'result')")
    ELSE IF ~Truthy(Get(out, "result")) THEN Throws("Output must include \"result\"")
    ELSE Returns(out)

\* after the last step
Finish ==
    /\ args.entry = "runFlow"
    /\ pc = "loop"
    /\ stepIdx = config.nSteps
    /\ IF standardize(currentOutput).threw
       THEN Throw(standardize(currentOutput).message)
       ELSE Return(standardize(currentOutput).value)
    /\ UNCHANGED <<config, nRuns, allNull>>
    /\ UNCHANGED setupVars
    /\ UNCHANGED flowVars
    /\ UNCHANGED frameVars
    /\ UNCHANGED hostVars

\* one run of a flow, with at most MaxRuns invocations of the primitive
Next ==
    \/ StartFlow
    \/ ConnectServers
    \/ \E id \in Range(ServerIds), connected \in BOOLEAN :
           SettleConnect(id, connected)
    \/ AwaitConnects
    \/ BuildAgents
    \/ \E s \in {t \in Steps : Dispatch(t.type) = "execSingleAgent"} :
          \E out \in SingleOutputs, h \in RunHistories(history) :
             nRuns < MaxRuns /\ SingleAgentStep(s, out, h)
    \/ \E s \in Steps : BeginReviewer(s)
    \/ \E out \in ProposalOutputs :
          \E h \in RunHistories(nextHistory) :
             nRuns < MaxRuns /\ Propose(out, h)
    \/ \E out \in ReviewOutputs :
          \E h \in RunHistories(nextHistory) :
             nRuns < MaxRuns /\ Review(out, h)
    \/ Exhaust
    \/ AssignStep
    \/ \E s \in Steps : UnknownStep(s)
    \/ Finish

Spec == Init /\ [][Next]_vars

(* ----------------------- the set-up, explored --------------------------- *)

\* the steps of the flows run on the configurations of SetupConfigs: their
\* references name A or B, whether or not the configuration declares them
SetupSingleSteps ==
    {WithAgent(RawStep("single_agent", "", 0, "", "true"), ref) :
        ref \in Range(AgentIds)}

SetupReviewerSteps ==
    {WithReviewer(RawStep("agent_reviewer", "", 1, "", "true"), p, r) :
        p \in Range(AgentIds), r \in Range(AgentIds)}

\* the answers of the primitive in these flows
SetupOutputs == {Obj(Str("x"), Undefined, Undefined)}

SetupReviews ==
    {Obj(Str("review-ok"), Str("pass"), Str("looks good")),
     Obj(Undefined, Str("fail"), Str("needs work"))}

InitSetup ==
    /\ config \in {c \in SetupConfigs : c.flow \/ c.nSteps = 0}
    /\ InitState
    /\ InitHost

\* a call of runFlow, or of buildAgents alone, on any configuration
NextSetup ==
    \/ StartFlow
    \/ ConnectServers
    \/ \E id \in Range(ServerIds), connected \in BOOLEAN :
           SettleConnect(id, connected)
    \/ AwaitConnects
    \/ BuildAgents
    \/ CallBuildAgents
    \/ \E s \in SetupSingleSteps, out \in SetupOutputs :
          SingleAgentStep(s, out, NoHistory)
    \/ \E s \in SetupReviewerSteps : BeginReviewer(s)
    \/ \E out \in SetupOutputs : Propose(out, NoHistory)
    \/ \E out \in SetupReviews : Review(out, NoHistory)
    \/ \E s \in SetupSingleSteps : SingleAgentRejects(s)
    \/ ProposeRejects
    \/ ReviewRejects
    \/ Exhaust
    \/ AssignStep
    \/ Finish

SpecSetup == InitSetup /\ [][NextSetup]_vars

TypeOK ==
    /\ pc \in {"start", "connect", "await", "build", "built", "loop", "while",
              "review", "assign", "returned", "failed"}
    /\ stepIdx \in 0..MaxSteps
    /\ turn \in 0..MaxTurns

(* ------------------- the omitted options, explored ---------------------- *)

\* review steps whose options are each either left out or set to the value
\* runFlow uses for an option left out
DefaultedReviewerSteps ==
    {WithReviewer(
        IF n = 0 THEN WithoutMaxTurns(RawStep("agent_reviewer", p, 0, i, c))
        ELSE RawStep("agent_reviewer", p, n, i, c), "A", "B") :
        p \in {"", DefaultPassCondition}, n \in {0, DefaultMaxTurns},
        i \in {"", "as_user"}, c \in {"absent", "true"}}

DefaultedSingleSteps ==
    {WithAgent(RawStep("single_agent", "", 0, "", c), "A") : c \in {"absent", "true"}}

\* the answers of the primitive in these flows; every run returns a history
DefaultedProposals == {Obj(Str("v1"), Undefined, Undefined)}

DefaultedReviews ==
    {Obj(Str("review-ok"), Str("pass"), Str("looks good")),
     Obj(Undefined, Str("fail"), Str("needs work")),
     Obj(Undefined, Undefined, Str("no score"))}

InitDefaults ==
    /\ config \in {c \in Configs : c.flow /\ c.nSteps = 1}
    /\ InitState
    /\ InitHost

\* one run of a flow of one step, with as many invocations as the step makes
NextDefaults ==
    \/ StartFlow
    \/ ConnectServers
    \/ \E id \in Range(ServerIds), connected \in BOOLEAN :
           SettleConnect(id, connected)
    \/ AwaitConnects
    \/ BuildAgents
    \/ \E s \in DefaultedSingleSteps, out \in DefaultedProposals :
          SingleAgentStep(s, out, SomeHistory(Append(history, Reply)))
    \/ \E s \in DefaultedReviewerSteps : BeginReviewer(s)
    \/ \E out \in DefaultedProposals :
          Propose(out, SomeHistory(Append(nextHistory, Reply)))
    \/ \E out \in DefaultedReviews :
          Review(out, SomeHistory(Append(nextHistory, Reply)))
    \/ Exhaust
    \/ AssignStep
    \/ Finish

SpecDefaults == InitDefaults /\ [][NextDefaults]_vars

(* ---------------------------- properties ------------------------------- *)

\* execAgentReviewer has returned to runFlow, which has not yet taken the result
ReviewerReturned == pc = "assign" /\ step.type = "agent_reviewer"

SingleReturned == pc = "assign" /\ step.type = "single_agent"

\* runFlow has ended after its loop over a non-empty list of steps
FlowFinished ==
    /\ pc \in {"returned", "failed"}
    /\ config.nSteps > 0
    /\ stepIdx = config.nSteps

\* the output of a proposal invocation as the executor reports it: no output
\* is reported as null
Reported(out) == IF out.t \in {"undefined", "null"} THEN Null ELSE out

EmptyResult == Obj(Str(""), Undefined, Undefined)

StringOutputMessage == "Output must be an object with a required \"result\" property"

MissingResultMessage == "Output must include \"result\""

\* the feedback messages the loop can inject
FeedbackMessages ==
    {Msg(role, "Feedback: " \o FeedbackText(ReviewOf(r))) :
        role \in {"user", "system"}, r \in ReviewOutputs}

FeedbackCount(h) == Cardinality({i \in 1..Len(h) : h[i] \in FeedbackMessages})

\* C1: in the review loop, a pass check that holds on turn k ends the loop
\* there: no earlier check held, the executor returns passed = true with the
\* output of the k-th proposal invocation (not the reviewer's), after exactly
\* k proposal and k reviewer invocations.
C1_PassReturnsProposal ==
    /\ (step.type = "agent_reviewer" /\ pc \in {"while", "review"}) => ~pass
    /\ (ReviewerReturned /\ pass) =>
          /\ stepResult.passed = "true"
          /\ stepResult.finalOutput = Reported(prop.finalOutput)
          /\ stepResult.finalOutput # rev.finalOutput
          /\ turn \in 1..StepMaxTurns(step)
          /\ nProp = turn
          /\ nRev = turn
          /\ nCalls = 2 * turn
    /\ (ReviewerReturned /\ stepResult.passed = "true") => pass

C1_Witness ==
    /\ ReviewerReturned
    /\ stepResult.passed = "true"
    /\ turn = 2
    /\ stepResult.finalOutput = Obj(Str("v1"), Undefined, Undefined)

\* C2: when every evaluation of the pass condition in a review loop raised
\* an error, every check counted as false and the loop returns passed = false
\* after exactly maxTurns turns; the errors thrown by runFlow are never the
\* expression's.
C2_EvalErrorNeverPasses ==
    /\ (step.type = "agent_reviewer" /\ pc \in {"while", "assign"} /\ nRev > 0
          /\ Evaluate(StepPassCondition(step), ReviewOf(rev.finalOutput), turn,
                      StepMaxTurns(step)).threw) => ~pass
    /\ (ReviewerReturned /\ nThrew = nRev) =>
          /\ stepResult.passed = "false"
          /\ turn = StepMaxTurns(step)
          /\ nProp = StepMaxTurns(step)
          /\ nRev = StepMaxTurns(step)
    /\ (pc = "failed") =>
          err \in {"Configuration must contain a \"flow\" property",
                   "Flow must contain at least one step", "Unknown step type: weird",
                   ConnectMessage,
                   StringOutputMessage, MissingResultMessage,
                   "TypeError: Cannot read properties of undefined (reading 'result')"}

C2_Witness ==
    /\ ReviewerReturned
    /\ StepPassCondition(step) = "?invalid"
    /\ nThrew = 2
    /\ nRev = 2
    /\ rev.finalOutput = Obj(Str("review-ok"), Str("pass"), Str("looks good"))

\* C3: a review loop that ends without a pass check holding has used exactly
\* maxTurns turns and returns normally, with passed = false and the output of
\* the last (maxTurns-th) proposal invocation.
C3_ExhaustedReturnsLastProposal ==
    /\ (ReviewerReturned /\ ~pass) =>
          /\ stepResult.passed = "false"
          /\ turn = StepMaxTurns(step)
          /\ nProp = StepMaxTurns(step)
          /\ nRev = StepMaxTurns(step)
          /\ stepResult.finalOutput = Reported(prop.finalOutput)
    /\ (ReviewerReturned /\ stepResult.passed = "false") => ~pass

C3_Witness ==
    /\ ReviewerReturned
    /\ stepResult.passed = "false"
    /\ turn = 2
    /\ stepResult.finalOutput = Obj(Str("v1"), Undefined, Undefined)

\* C4: with maxTurns = 1 and a review that fails, the history the executor
\* returns holds no feedback message beyond those of the history it was given.
C4_NoFeedbackAfterFinalTurn ==
    (ReviewerReturned /\ stepResult.passed = "false" /\ StepMaxTurns(step) = 1) =>
        FeedbackCount(stepResult.history) = FeedbackCount(histArg)

\* C5 as stated: the single-agent executor's next history is the input
\* history when carryHistory is false and the history the primitive returned
\* when it is true.
C5_CarryHistoryAlone ==
    SingleReturned =>
        IF StepCarryHistory(step)
        THEN res.history.some /\ stepResult.history = res.history.msgs
        ELSE stepResult.history = histArg

\* C5 as amended: the single-agent executor invokes the primitive once; with
\* carryHistory false the next history is the input history whatever the
\* primitive returned; with carryHistory true it is the history the primitive
\* returned, or the input history when the primitive returned none.
C5_CarryHistoryOrInput ==
    SingleReturned =>
        /\ nCalls = 1
        /\ histArg = history
        /\ stepResult.finalOutput = res.finalOutput
        /\ stepResult.history =
              IF ~StepCarryHistory(step) THEN histArg
              ELSE IF res.history.some THEN res.history.msgs
              ELSE histArg

C5_Witness ==
    /\ SingleReturned
    /\ ~StepCarryHistory(step)
    /\ res.history.some
    /\ res.history.msgs # histArg
    /\ Len(histArg) > 1

\* C6: when the output of the last step is an object with a truthy result,
\* runFlow returns that object, with every field it has and no other.
C6_TruthyResultReturnedUnchanged ==
    (FlowFinished /\ currentOutput.t = "object"
       /\ Truthy(Get(currentOutput, "result"))) =>
        /\ pc = "returned"
        /\ retVal = currentOutput

C6_Witness ==
    /\ pc = "returned"
    /\ retVal = Obj(Str("x"), Str("pass"), Undefined)

\* C7: when the final output is a string, or an object without a truthy
\* result, runFlow throws the output-shape error and returns no value; that
\* error is thrown only after all steps have executed.
C7_ShapeErrors ==
    /\ (FlowFinished /\ currentOutput.t = "string") =>
          /\ pc = "failed"
          /\ err = StringOutputMessage
          /\ retVal = Undefined
    /\ (FlowFinished /\ currentOutput.t = "object"
          /\ ~Truthy(Get(currentOutput, "result"))) =>
          /\ pc = "failed"
          /\ err = MissingResultMessage
          /\ retVal = Undefined
    /\ (pc = "failed" /\ err \in {StringOutputMessage, MissingResultMessage}) =>
          stepIdx = config.nSteps

C7_Witness ==
    /\ pc = "failed"
    /\ stepIdx = 2
    /\ currentOutput = Obj(Num("0"), Undefined, Undefined)
    /\ err = MissingResultMessage

\* C8 as stated: every value runFlow returns is an object with a non-empty
\* result field.
C8_ReturnsNonEmptyResult ==
    pc = "returned" =>
        /\ retVal.t = "object"
        /\ Truthy(Get(retVal, "result"))

\* C8 as amended: every value runFlow returns is an object with a result
\* field, which is non-empty unless the last step produced no output (null),
\* where the value is {result: ""}.
C8_ReturnsResultObject ==
    pc = "returned" =>
        /\ retVal.t = "object"
        /\ Get(retVal, "result").t # "undefined"
        /\ \/ Truthy(Get(retVal, "result"))
           \/ (currentOutput = Null /\ retVal = EmptyResult)

C8_Witness ==
    /\ pc = "returned"
    /\ retVal = EmptyResult
    /\ nRuns > 0

\* C9: when every invocation of the run answered null, runFlow returns
\* exactly {result: ""} and throws no output-shape error.
C9_NoOutputReturnsEmptyResult ==
    (FlowFinished /\ allNull) =>
        /\ pc = "returned"
        /\ retVal = EmptyResult

C9_Witness ==
    /\ pc = "returned"
    /\ allNull
    /\ nRuns = 3
    /\ stepIdx = 2

\* C10 as stated: a flow whose step list is empty returns {result: ""}.
C10_ZeroStepsReturnEmptyResult ==
    (config.flow /\ config.nSteps = 0 /\ pc # "start") =>
        /\ pc = "returned"
        /\ retVal = EmptyResult

\* C10 as amended: a flow whose step list is empty fails validation with
\* "Flow must contain at least one step" before any invocation, and returns
\* no value.
C10_ZeroStepsRejected ==
    (config.flow /\ config.nSteps = 0 /\ pc # "start") =>
        /\ pc = "failed"
        /\ err = "Flow must contain at least one step"
        /\ nRuns = 0
        /\ retVal = Undefined

C10_Witness ==
    /\ config.flow
    /\ config.nSteps = 0
    /\ pc = "failed"

(* ------------------- properties of the set-up -------------------------- *)

FlowMessage == "Configuration must contain a \"flow\" property"

StepsMessage == "Flow must contain at least one step"

\* runFlow has been called and its validation is over
Validated == pc \notin {"start", "built"}

\* runFlow failed in validateConfig: nothing of the set-up has been done
ValidationThrew ==
    /\ pc = "failed"
    /\ history = <<>>
    /\ connecting = {}

\* nothing is connected, built or executed
NothingDone ==
    /\ mcpRegistry = NoRegistry
    /\ connecting = {}
    /\ agents = NoAgents
    /\ history = <<>>
    /\ stepIdx = 0
    /\ nRuns = 0

\* the schema declares result and requires it
SchemaSound(kind) == kind = "ok"

DeclaredSchemas(c) == {n \in Range(SchemaNames) : c.outputSchemas[n] # "absent"}

DeclaredAgents(c) == {id \in Range(AgentIds) : c.agents[id] # "absent"}

\* the schemas of the configuration that lack a required result
UnsoundSchemas(c) == {n \in DeclaredSchemas(c) : ~SchemaSound(c.outputSchemas[n])}

\* the agents without outputSchemaRef, or whose outputSchemaRef names no schema
UnboundAgents(c) ==
    {id \in DeclaredAgents(c) : c.agents[id] \notin DeclaredSchemas(c)}

\* the messages that name the schema n
SchemaMessages(n) ==
    {"Output schema \"" \o n \o "\" must have \"result\" property",
     "Output schema \"" \o n \o "\" must require \"result\""}

\* C11: validateConfig does not throw for a configuration that has a flow
\* with at least one step, whose declared schemas all declare and require
\* result and whose declared agents all name a declared schema; it throws,
\* with the message of the flow or of the steps, for a configuration without
\* flow or without steps.
C11_ValidConfigsPass ==
    Validated =>
        /\ (config.flow /\ config.nSteps >= 1 /\ UnsoundSchemas(config) = {}
              /\ UnboundAgents(config) = {}) => ~ValidationThrew
        /\ ~config.flow => (ValidationThrew /\ err = FlowMessage)
        /\ (config.flow /\ config.nSteps = 0) =>
              (ValidationThrew /\ err = StepsMessage)

C11_Witness ==
    /\ pc = "connect"
    /\ config.outputSchemas = [n \in Range(SchemaNames) |-> "ok"]
    /\ config.agents["A"] = "basic"
    /\ config.agents["B"] = "extra"
    /\ config.nSteps = 2

\* C12 as stated: for every schema of the configuration without a required
\* result, runFlow fails in validateConfig with a message that names that
\* schema, before anything is connected, built or executed.
C12_ThrowsNamingEachSchema ==
    Validated =>
        \A n \in UnsoundSchemas(config) :
            /\ ValidationThrew
            /\ err \in SchemaMessages(n)
            /\ NothingDone

\* C12 as amended: a configuration with a schema without a required result
\* fails in validateConfig before anything is connected, built or executed;
\* the message is that of the flow or of the steps when the configuration has
\* no flow or no step, and otherwise names the first such schema in
\* declaration order (no result property, or result not required).
C12_ThrowsNamingFirstSchema ==
    (Validated /\ UnsoundSchemas(config) # {}) =>
        LET first == CHOOSE i \in 1..Len(SchemaNames) :
                        /\ SchemaNames[i] \in UnsoundSchemas(config)
                        /\ \A j \in 1..(i - 1) :
                              SchemaNames[j] \notin UnsoundSchemas(config)
            n == SchemaNames[first]
        IN  /\ ValidationThrew
            /\ NothingDone
            /\ err = IF ~config.flow THEN FlowMessage
                     ELSE IF config.nSteps = 0 THEN StepsMessage
                     ELSE IF config.outputSchemas[n] = "noResultProperty"
                     THEN "Output schema \"" \o n \o "\" must have \"result\" property"
                     ELSE "Output schema \"" \o n \o "\" must require \"result\""

C12_Witness ==
    /\ pc = "failed"
    /\ config.outputSchemas["basic"] = "ok"
    /\ config.outputSchemas["extra"] = "resultNotRequired"
    /\ config.nSteps = 1
    /\ config.mcpServers["proc"] = "stdio"
    /\ config.agents["A"] = "basic"
    /\ err = "Output schema \"extra\" must require \"result\""

\* C13: buildAgents, given an agent without outputSchemaRef or with one that
\* names no schema, does not return and has constructed no agent handle.
C13_BuildAgentsRejects ==
    UnboundAgents(config) # {} =>
        /\ pc # "built"
        /\ agents = NoAgents

(* ------------------- properties of the step loop ----------------------- *)

KnownTypes == {"single_agent", "agent_reviewer"}

\* a step is being executed, or has just failed
InStep == step # NoStep

\* C14: a step of another type than single_agent and agent_reviewer makes
\* runFlow throw "Unknown step type: <type>" and return nothing; the error is
\* thrown when the loop reaches the step, the steps before it having been
\* executed, and nothing is executed after it.
C14_UnknownTypeFailsAtUse ==
    /\ [](/\ (InStep /\ step.type \notin KnownTypes) =>
                /\ pc = "failed"
                /\ err = "Unknown step type: " \o step.type
                /\ retVal = Undefined
                /\ stepIdx < config.nSteps
                /\ nCalls = 0
          /\ (pc = "failed" /\ err = "Unknown step type: weird") =>
                step.type = "weird")
    /\ [][pc # "failed"]_vars

C14_Witness ==
    /\ pc = "failed"
    /\ step.type = "weird"
    /\ err = "Unknown step type: weird"
    /\ stepIdx = 1
    /\ config.nSteps = 2
    /\ nRuns = 2

\* C16: when a review step has returned, passed or not, runFlow takes its
\* output and history as the current ones and goes on with the loop: the next
\* step if there is one, the end of the flow otherwise.
C16_ReviewOutcomeNeverHalts ==
    /\ [](ReviewerReturned =>
            /\ stepResult.passed \in {"true", "false"}
            /\ ENABLED AssignStep)
    /\ [][ReviewerReturned =>
            /\ pc' = "loop"
            /\ currentOutput' = stepResult.finalOutput
            /\ history' = stepResult.history
            /\ stepIdx' = stepIdx + 1]_vars
    /\ []((pc = "loop" /\ stepIdx < config.nSteps) =>
            ENABLED (\E s \in Steps : BeginReviewer(s)))

\* a second step has been executed on the history of a review that failed
C16_Witness ==
    /\ pc = "assign"
    /\ stepIdx = 1
    /\ FeedbackCount(histArg) > 0
    /\ nCalls > 0

\* C17: the invocations of a run are made one after another, in the order of
\* the steps and, inside a review loop, of the turns: an invocation is made
\* in a step that has not returned, the k-th proposal after k - 1 reviews,
\* the k-th review after the k-th proposal has answered and on the history
\* adopted from that answer (with carryHistory, the history the proposal
\* returned); the index of the step moves by one, once its executor returned.
C17_InvocationsInOrder ==
    /\ []((step.type = "agent_reviewer" /\ pc = "review") =>
            /\ nProp = turn
            /\ nRev = turn - 1
            /\ nextHistory = IF StepCarryHistory(step) /\ prop.history.some
                             THEN prop.history.msgs ELSE runArg)
    /\ []((step.type = "agent_reviewer" /\ pc = "while") =>
            (nProp = turn /\ nRev = turn))
    /\ [][nRuns' # nRuns =>
            /\ nRuns' = nRuns + 1
            /\ stepIdx' = stepIdx
            /\ pc \in {"loop", "while", "review"}
            /\ pc = "loop" => (runArg' = history /\ pc' = "assign")
            /\ pc = "while" =>
                  (runArg' = nextHistory /\ nProp' = nProp + 1 /\ nRev' = nRev
                     /\ pc' = "review")
            /\ pc = "review" =>
                  (runArg' = nextHistory /\ nRev' = nRev + 1 /\ nProp' = nProp)]_vars
    /\ [][stepIdx' # stepIdx => (stepIdx' = stepIdx + 1 /\ pc = "assign")]_vars

C17_Witness ==
    /\ pc = "review"
    /\ stepIdx = 1
    /\ turn = 2
    /\ StepCarryHistory(step)
    /\ prop.history.some
    /\ nRuns = 4

\* a review of the step has just failed
ReviewFailed ==
    /\ step.type = "agent_reviewer"
    /\ pc \in {"while", "assign"}
    /\ nRev >= 1
    /\ ~pass

\* the history the loop holds after the review, before the feedback
AfterReview ==
    IF StepCarryHistory(step) /\ rev.history.some THEN rev.history.msgs ELSE runArg

\* the review's feedback field if it has one, else the review as JSON
ReviewText ==
    LET review == IF Truthy(rev.finalOutput) THEN rev.finalOutput
                  ELSE Obj(Undefined, Undefined, Undefined)
    IN  IF review.f["feedback"].t \notin {"undefined", "null"}
        THEN review.f["feedback"].s
        ELSE JsonStringify(review)

\* what the mode appends, given the content of the message
Appended(content) ==
    IF step.feedbackInjection = "as_system" THEN <<Msg("system", content)>>
    ELSE IF step.feedbackInjection = "as_user" THEN <<Msg("user", content)>>
    ELSE <<>>

\* C18 as stated: after a failed review, as_system appends one system
\* message, as_user one user message and append_only none, and the content of
\* the message is the review's feedback field, or the review as JSON.
C18_ContentIsFeedbackText ==
    ReviewFailed => nextHistory = AfterReview \o Appended(ReviewText)

\* C18 as amended: after a failed review, as_system appends one system
\* message, as_user one user message and append_only none, and the content of
\* the message is "Feedback: " followed by the review's feedback field, or by
\* the review as JSON when it has none.
C18_ContentIsPrefixedFeedbackText ==
    ReviewFailed => nextHistory = AfterReview \o Appended("Feedback: " \o ReviewText)

C18_Witness ==
    /\ ReviewFailed
    /\ pc = "while"
    /\ turn = 1
    /\ step.feedbackInjection = "as_system"
    /\ rev.finalOutput = Obj(Undefined, Str("fail"), Undefined)
    /\ nextHistory[Len(nextHistory)] = Msg("system", "Feedback: {\"score\":\"fail\"}")

\* a reference of the step being executed names no agent that was built
UnresolvedRef ==
    \/ /\ step.type = "single_agent"
       /\ agents[step.agentRef] = "none"
    \/ /\ step.type = "agent_reviewer"
       /\ \/ agents[step.proposalAgentRef] = "none"
          \/ agents[step.reviewerAgentRef] = "none"

\* C15: a step with a reference that names no built agent makes the flow
\* fail at that step, before the primitive is invoked for it.
C15_UnresolvedRefFailsBeforeRun ==
    (InStep /\ UnresolvedRef) =>
        /\ pc = "failed"
        /\ nCalls = 0

\* C19: a review step whose options are left out (or set to score == "pass",
\* 8, as_user, true) passes exactly on a review whose score is "pass", gives
\* up after 8 turns and not before, appends the feedback as a user message
\* and adopts the histories the runs return; a single_agent step without
\* io.carryHistory returns the history its run returned.
C19_OmittedOptionsAreDefaults ==
    /\ (step.type = "agent_reviewer" /\ nRev >= 1 /\ pc \in {"while", "assign"}) =>
          /\ pass = (rev.finalOutput.f["score"] = [t |-> "string", s |-> "pass"])
          /\ pass => (pc = "assign" /\ stepResult.passed = "true")
    /\ step.type = "agent_reviewer" => turn <= 8
    /\ (ReviewerReturned /\ ~pass) =>
          /\ stepResult.passed = "false"
          /\ turn = 8
          /\ nProp = 8
          /\ nRev = 8
    /\ ReviewFailed =>
          /\ nextHistory = Append(rev.history.msgs,
                                  Msg("user", "Feedback: " \o ReviewText))
          /\ Cardinality({i \in 1..Len(nextHistory) :
                             nextHistory[i].role = "user"}) = 1 + turn
    /\ (step.type = "agent_reviewer" /\ pc = "review") =>
          nextHistory = prop.history.msgs
    /\ ReviewerReturned => Len(stepResult.history) = Len(histArg) + 2 * turn
                              + (IF pass THEN turn - 1 ELSE turn)
    /\ SingleReturned => stepResult.history = Append(histArg, Reply)

\* a step with every option left out has used up its eight turns
C19_Witness ==
    /\ ReviewerReturned
    /\ step.passCondition = ""
    /\ ~step.maxTurns.isNumber
    /\ step.feedbackInjection = ""
    /\ step.carryHistory = "absent"
    /\ stepResult.passed = "false"
    /\ nRev = 8

\* C20: the registry buildMcpServers returns has a subprocess handle for
\* every server of type stdio and the url for every server of type http (in
\* any letter case), and no entry for a server of another type; connect() is
\* called on the stdio servers only, and only a refused connection makes the
\* build fail.
C20_RegistryByType ==
    (pc \notin {"start", "connect", "built"} /\ ~ValidationThrew) =>
        /\ \A id \in Range(ServerIds) :
              mcpRegistry[id] =
                 CASE config.mcpServers[id] = "stdio" -> "MCPServerStdio"
                   [] config.mcpServers[id] \in {"http", "HTTP"} -> "url"
                   [] OTHER -> "none"
        /\ connecting = {id \in Range(ServerIds) : config.mcpServers[id] = "stdio"}
        /\ (pc = "failed" /\ history = <<>>) =>
              (err = ConnectMessage /\ connecting # {})

C20_Witness ==
    /\ pc = "build"
    /\ config.mcpServers["proc"] = "sse"
    /\ config.mcpServers["svc"] = "HTTP"
    /\ mcpRegistry["proc"] = "none"
    /\ mcpRegistry["svc"] = "url"

(* ----------------------- the tools, explored --------------------------- *)

\* configurations whose first agent has any list of tool entries, and whose
\* second agent may be missing and may have itself as a tool
ToolConfigs ==
    [flow : {TRUE}, nSteps : {1},
     outputSchemas : {[n \in Range(SchemaNames) |->
                         IF n = "basic" THEN "ok" ELSE "absent"]},
     agents : {[id \in Range(AgentIds) |-> IF id = "A" THEN "basic" ELSE b] :
                  b \in {"basic", "absent"}},
     mcpServers : {[id \in Range(ServerIds) |-> "absent"]},
     tools : {[id \in Range(AgentIds) |-> IF id = "A" THEN a ELSE b] :
                 a \in ToolLists,
                 b \in {<<>>, <<ToolEntry("agent", "B", "")>>}}]

InitTools ==
    /\ config \in ToolConfigs
    /\ InitState
    /\ InitHost

NextTools == CallBuildAgents

SpecTools == InitTools /\ [][NextTools]_vars

(* ----------------- runFlowWithFile, runFlowWithFileBuffer --------------- *)

\* the entry point up to the upload: the key, then the validation
StartFlowWithFile ==
    /\ UNCHANGED nRejected
    /\ args.entry \in FileEntries
    /\ pc = "start"
    /\ envKey' = ensureOpenAIKey(args.apiKey, envKey).env
    /\ keyLog' = Append(keyLog, KeyCall(args.apiKey, envKey))
    /\ IF ensureOpenAIKey(args.apiKey, envKey).threw
       THEN Throw(KeyMessage)
       ELSE IF validateConfig(config) # ""
       THEN Throw(validateConfig(config))
       ELSE /\ pc' = "upload"
            /\ UNCHANGED <<retVal, err>>
    /\ UNCHANGED <<config, nRuns, allNull>>
    /\ UNCHANGED setupVars
    /\ UNCHANGED flowVars
    /\ UNCHANGED frameVars
    /\ UNCHANGED callVars

\* await client.files.create(...): the file is stored, or the call fails and
\* the entry point throws
UploadFile(stored) ==
    /\ UNCHANGED keyVars
    /\ UNCHANGED nRejected
    /\ pc = "upload"
    /\ IF stored
       THEN /\ file' = [file EXCEPT !.uploads = @ + 1, !.id = FileId]
            /\ pc' = "connect"
            /\ UNCHANGED <<retVal, err>>
       ELSE /\ file' = [file EXCEPT !.uploads = @ + 1]
            /\ Throw(UploadMessage)
    /\ UNCHANGED <<config, nRuns, allNull>>
    /\ UNCHANGED setupVars
    /\ UNCHANGED flowVars
    /\ UNCHANGED frameVars
    /\ UNCHANGED <<args, active, parked, sys, prompt, parser, script>>

\* buildAgents, and the entry point up to its loop over the steps: the
\* history starts with one user message of two parts
BuildAgentsWithFile ==
    /\ args.entry \in FileEntries
    /\ pc = "build"
    /\ agents' = buildAgents(config.agents, mcpRegistry, config.outputSchemas)
    /\ agentTools' = buildTools(config.agents, config.tools)
    /\ history' = <<Msg("user", FileContent(file.id, args.userPrompt))>>
    /\ currentOutput' = Null
    /\ pc' = "loop"
    /\ UNCHANGED <<config, mcpRegistry, connecting, settled, stepIdx, nRuns,
                   allNull, retVal, err>>
    /\ UNCHANGED frameVars
    /\ UNCHANGED hostVars

\* the same that deletes the file whatever the option says
DeleteFile_Always(deleted) ==
    /\ UNCHANGED keyVars
    /\ UNCHANGED nRejected
    /\ args.entry \in FileEntries
    /\ pc = "loop"
    /\ stepIdx = config.nSteps
    /\ file' = [file EXCEPT !.deletes = @ + 1,
                             !.warnings = IF deleted THEN @ ELSE @ + 1]
    /\ pc' = "deleted"
    /\ UNCHANGED <<config, nRuns, allNull, retVal, err>>
    /\ UNCHANGED setupVars
    /\ UNCHANGED flowVars
    /\ UNCHANGED frameVars
    /\ UNCHANGED <<args, active, parked, sys, prompt, parser, script>>

\* after the last step: unless opts.deleteFileAfter is false, await
\* client.files.del(file.id); a failure of it is caught and warned about
DeleteFile(deleted) ==
    /\ UNCHANGED keyVars
    /\ UNCHANGED nRejected
    /\ args.entry \in FileEntries
    /\ pc = "loop"
    /\ stepIdx = config.nSteps
    /\ IF args.deleteFileAfter # "false"
       THEN file' = [file EXCEPT !.deletes = @ + 1,
                                 !.warnings = IF deleted THEN @ ELSE @ + 1]
       ELSE deleted /\ UNCHANGED file
    /\ pc' = "deleted"
    /\ UNCHANGED <<config, nRuns, allNull, retVal, err>>
    /\ UNCHANGED setupVars
    /\ UNCHANGED flowVars
    /\ UNCHANGED frameVars
    /\ UNCHANGED <<args, active, parked, sys, prompt, parser, script>>

\* a return that gives no output when the delete failed
standardizeWithFile_DeleteFatal(out, fileRec) ==
    IF fileRec.warnings > 0
    THEN [threw |-> TRUE, value |-> Undefined, fileId |-> "",
          message |-> "Failed to delete uploaded file"]
    ELSE [threw |-> standardize(out).threw, value |-> standardize(out).value,
          message |-> standardize(out).message,
          fileId |-> IF standardize(out).threw \/ out = Null THEN ""
                     ELSE fileRec.id]

\* the value the entry point returns for the final output, with the fileId
\* it adds to it ("": none), or the error it throws
standardizeWithFile(out, fileRec) ==
    IF out = Null
    THEN [threw |-> FALSE, value |-> Obj(Str(""), Undefined, Undefined),
          message |-> "", fileId |-> ""]
    ELSE IF out.t = "string"
    THEN [threw |-> TRUE, value |-> Undefined, fileId |-> "",
          message |-> "Output must be an object with a required \"result\" property"]
    ELSE IF out.t = "undefined"
    THEN [threw |-> TRUE, value |-> Undefined, fileId |-> "",
          message |-> "TypeError: Cannot read properties of undefined (reading 'result')"]
    ELSE IF ~Truthy(Get(out, "result"))
    THEN [threw |-> TRUE, value |-> Undefined, fileId |-> "",
          message |-> "Output must include \"result\""]
    ELSE [threw |-> FALSE, value |-> out, message |-> "", fileId |-> fileRec.id]

\* the return of the entry point
FinishWithFile ==
    /\ UNCHANGED keyVars
    /\ UNCHANGED nRejected
    /\ pc = "deleted"
    /\ IF standardizeWithFile(currentOutput, file).threw
       THEN /\ Throw(standardizeWithFile(currentOutput, file).message)
            /\ UNCHANGED file
       ELSE /\ Return(standardizeWithFile(currentOutput, file).value)
            /\ file' = [file EXCEPT !.fileId =
                                       standardizeWithFile(currentOutput, file).fileId]
    /\ UNCHANGED <<config, nRuns, allNull>>
    /\ UNCHANGED setupVars
    /\ UNCHANGED flowVars
    /\ UNCHANGED frameVars
    /\ UNCHANGED <<args, active, parked, sys, prompt, parser, script>>

\* the answers of the primitive in these flows: none, an object, a string
FileOutputs == {Null, Obj(Str("ok:file"), Undefined, Undefined), Str("text")}

InitFile ==
    /\ config \in {c \in Configs : c.flow \/ c.nSteps = 0}
    /\ InitState
    /\ envKey = "sk-test"
    /\ keyLog = <<>>
    /\ args \in [entry : FileEntries, userPrompt : {UserPrompt}, apiKey : {""},
                  deleteFileAfter : DeleteOptions]
    /\ file = NoFile
    /\ active = 1
    /\ parked = NoActivation
    /\ sys = NoSys
    /\ parser = NoParser
    /\ script = NoScript
    /\ prompt = NoPrompt

\* a call of runFlowWithFile or of runFlowWithFileBuffer
NextFile ==
    \/ StartFlowWithFile
    \/ \E stored \in BOOLEAN : UploadFile(stored)
    \/ ConnectServers
    \/ \E id \in Range(ServerIds), connected \in BOOLEAN :
           SettleConnect(id, connected)
    \/ AwaitConnects
    \/ BuildAgentsWithFile
    \/ \E s \in SetupSingleSteps, out \in FileOutputs :
          SingleAgentStep(s, out, NoHistory)
    \/ \E s \in SetupSingleSteps : SingleAgentRejects(s)
    \/ \E s \in SetupReviewerSteps : BeginReviewer(s)
    \/ \E out \in FileOutputs : Propose(out, NoHistory)
    \/ \E out \in SetupReviews : Review(out, NoHistory)
    \/ ProposeRejects
    \/ ReviewRejects
    \/ Exhaust
    \/ AssignStep
    \/ \E s \in OtherSteps : UnknownStep(s)
    \/ \E deleted \in BOOLEAN : DeleteFile(deleted)
    \/ FinishWithFile

SpecFile == InitFile /\ [][NextFile]_vars

(* --------------------- two activations of runFlow ---------------------- *)

\* the parameters and locals of the activation that is executing, and what
\* is recorded of it
Activation ==
    [pc |-> pc, config |-> config, mcpRegistry |-> mcpRegistry,
     connecting |-> connecting, agents |-> agents, settled |-> settled,
     agentTools |-> agentTools, runAgent |-> runAgent, runArg |-> runArg,
     stepIdx |-> stepIdx, step |-> step, history |-> history,
     currentOutput |-> currentOutput, histArg |-> histArg, turn |-> turn,
     lastProposal |-> lastProposal, nextHistory |-> nextHistory,
     prop |-> prop, rev |-> rev, res |-> res, pass |-> pass,
     stepResult |-> stepResult, nProp |-> nProp, nRev |-> nRev,
     nThrew |-> nThrew, nCalls |-> nCalls, nRuns |-> nRuns,
     nRejected |-> nRejected, allNull |-> allNull, retVal |-> retVal,
     err |-> err, args |-> args, file |-> file]

\* an activation that has not started
NewActivation(cfg, arguments) ==
    [pc |-> "start", config |-> cfg, mcpRegistry |-> NoRegistry,
     connecting |-> {}, agents |-> NoAgents, settled |-> NoConnects,
     agentTools |-> NoTools, runAgent |-> "undefined", runArg |-> <<>>,
     stepIdx |-> 0, step |-> NoStep, history |-> <<>>,
     currentOutput |-> Null, histArg |-> <<>>, turn |-> 0,
     lastProposal |-> Null, nextHistory |-> <<>>, prop |-> NoRun,
     rev |-> NoRun, res |-> NoRun, pass |-> FALSE, stepResult |-> NoResult,
     nProp |-> 0, nRev |-> 0, nThrew |-> 0, nCalls |-> 0, nRuns |-> 0,
     nRejected |-> 0, allNull |-> TRUE, retVal |-> Undefined, err |-> "",
     args |-> arguments, file |-> NoFile]

\* the activation a becomes the one that is executing
Load(a) ==
    /\ pc' = a.pc
    /\ config' = a.config
    /\ mcpRegistry' = a.mcpRegistry
    /\ connecting' = a.connecting
    /\ agents' = a.agents
    /\ settled' = a.settled
    /\ agentTools' = a.agentTools
    /\ runAgent' = a.runAgent
    /\ runArg' = a.runArg
    /\ stepIdx' = a.stepIdx
    /\ step' = a.step
    /\ history' = a.history
    /\ currentOutput' = a.currentOutput
    /\ histArg' = a.histArg
    /\ turn' = a.turn
    /\ lastProposal' = a.lastProposal
    /\ nextHistory' = a.nextHistory
    /\ prop' = a.prop
    /\ rev' = a.rev
    /\ res' = a.res
    /\ pass' = a.pass
    /\ stepResult' = a.stepResult
    /\ nProp' = a.nProp
    /\ nRev' = a.nRev
    /\ nThrew' = a.nThrew
    /\ nCalls' = a.nCalls
    /\ nRuns' = a.nRuns
    /\ nRejected' = a.nRejected
    /\ allNull' = a.allNull
    /\ retVal' = a.retVal
    /\ err' = a.err
    /\ args' = a.args
    /\ file' = a.file

\* a process whose activations of runFlow share the history and the
\* current output
Switch_SharedHistory ==
    /\ parked # NoActivation
    /\ pc' = parked.pc
    /\ config' = parked.config
    /\ mcpRegistry' = parked.mcpRegistry
    /\ connecting' = parked.connecting
    /\ agents' = parked.agents
    /\ settled' = parked.settled
    /\ agentTools' = parked.agentTools
    /\ runAgent' = parked.runAgent
    /\ runArg' = parked.runArg
    /\ stepIdx' = parked.stepIdx
    /\ step' = parked.step
    /\ histArg' = parked.histArg
    /\ turn' = parked.turn
    /\ lastProposal' = parked.lastProposal
    /\ nextHistory' = parked.nextHistory
    /\ prop' = parked.prop
    /\ rev' = parked.rev
    /\ res' = parked.res
    /\ pass' = parked.pass
    /\ stepResult' = parked.stepResult
    /\ nProp' = parked.nProp
    /\ nRev' = parked.nRev
    /\ nThrew' = parked.nThrew
    /\ nCalls' = parked.nCalls
    /\ nRuns' = parked.nRuns
    /\ nRejected' = parked.nRejected
    /\ allNull' = parked.allNull
    /\ retVal' = parked.retVal
    /\ err' = parked.err
    /\ args' = parked.args
    /\ file' = parked.file
    /\ UNCHANGED <<history, currentOutput>>
    /\ parked' = Activation
    /\ active' = 3 - active
    /\ UNCHANGED <<envKey, keyLog, sys, prompt, parser, script>>

\* the activation that is executing suspends and the other one goes on: each
\* has its own parameters and locals, the environment is the process's
Switch ==
    /\ parked # NoActivation
    /\ Load(parked)
    /\ parked' = Activation
    /\ active' = 3 - active
    /\ UNCHANGED <<envKey, keyLog, sys, prompt, parser, script>>

\* the prompt of each call
PromptOf(r) == IF r = 1 THEN "prompt" ELSE "other prompt"

\* the primitive's answers to each activation: the message it adds to the
\* thread, and the output of the k-th invocation
ReplyOf(r) == Msg("assistant", IF r = 1 THEN "reply" ELSE "other reply")

OutputOf(r, k) ==
    Obj(Str(IF r = 1 THEN <<"a1", "a2", "a3", "a4">>[k]
            ELSE <<"b1", "b2", "b3", "b4">>[k]),
        Undefined, Undefined)

\* the configuration of the second call: fewer agents, other servers
OtherConfigs ==
    [flow : {TRUE}, nSteps : 1..MaxSteps,
     outputSchemas : {[n \in Range(SchemaNames) |->
                         IF n = "basic" THEN "ok" ELSE "absent"]},
     agents : {[id \in Range(AgentIds) |->
                  IF id = "A" THEN "basic" ELSE "absent"]},
     mcpServers : {[id \in Range(ServerIds) |->
                      IF id = "proc" THEN "absent" ELSE "stdio"]},
     tools : {NoTools}]

InitConcurrent ==
    /\ config \in {c \in Configs : c.flow /\ c.nSteps > 0}
    /\ InitState
    /\ envKey = "sk-test"
    /\ keyLog = <<>>
    /\ args \in {[RunFlowArgs EXCEPT !.apiKey = k] : k \in {"", "sk-one"}}
    /\ file = NoFile
    /\ active = 1
    /\ parked \in {NewActivation(c, [RunFlowArgs EXCEPT
                                         !.apiKey = k,
                                         !.userPrompt = PromptOf(2)]) :
                      c \in OtherConfigs, k \in {"", "sk-two"}}
    /\ sys = NoSys
    /\ parser = NoParser
    /\ script = NoScript
    /\ prompt = NoPrompt

\* two calls of runFlow whose awaits interleave
NextConcurrent ==
    \/ StartFlow
    \/ ConnectServers
    \/ \E id \in Range(ServerIds) : SettleConnect(id, TRUE)
    \/ AwaitConnects
    \/ BuildAgents
    \/ \E s \in {t \in SetupSingleSteps : t.agentRef = "A"} :
          SingleAgentStep(s, OutputOf(active, nRuns + 1),
                          SomeHistory(Append(history, ReplyOf(active))))
    \/ AssignStep
    \/ Finish
    \/ Switch

SpecConcurrent == InitConcurrent /\ [][NextConcurrent]_vars

(* --------------------------- validateSystem ---------------------------- *)

\* String.prototype.startsWith('sk-'), on the keys explored
StartsWithSk(key) == key \in {"sk-test", "sk-one", "sk-two"}

\* validateOpenAIKey(): the message of the error it throws, or "" when the
\* key passes
validateOpenAIKey(env) ==
    IF env = "" THEN "OPENAI_API_KEY not found in system environment"
    ELSE IF Trim(env) = "" THEN "OPENAI_API_KEY is empty"
    ELSE IF ~StartsWithSk(env)
    THEN "OPENAI_API_KEY format invalid (should start with sk-)"
    ELSE ""

\* a server of the configuration file: its type, its fullCommand and its url
\* ("": not set)
ServerSpec(type, fullCommand, url) ==
    [type |-> type, fullCommand |-> fullCommand, url |-> url]

\* the commands that commandExists finds
FoundCommands == {"npx", "uvx"}

\* new URL(url): "" where it throws, else the protocol
UrlProtocol(url) ==
    CASE url = "http://example.com" -> "http:"
      [] url = "https://example.com" -> "https:"
      [] url = "ftp://example.com" -> "ftp:"
      [] OTHER -> ""

\* String.prototype.startsWith('http'), on the protocols explored
StartsWithHttp(protocol) == protocol \in {"http:", "https:"}

ServerSpecs ==
    {ServerSpec("absent", "", ""),
     ServerSpec("stdio", "npx", ""), ServerSpec("stdio", "", ""),
     ServerSpec("stdio", "ghost", ""), ServerSpec("stdio", "uvx", ""),
     ServerSpec("http", "", "http://example.com"),
     ServerSpec("http", "", "not a url"),
     ServerSpec("http", "", "ftp://example.com"),
     ServerSpec("HTTP", "", "https://example.com"),
     ServerSpec("sse", "", "http://example.com")}

\* the message validateMCPServers has for one server: an error, a warning
\* or nothing; uvxWorks: 'uvx --help' runs
McpFinding(spec, uvxWorks) ==
    IF ToLowerCase(spec.type) = "stdio"
    THEN IF spec.fullCommand = ""
         THEN [kind |-> "error", text |-> "missing fullCommand"]
         ELSE IF spec.fullCommand \notin FoundCommands
         THEN [kind |-> "error", text |-> "command not found in system PATH"]
         ELSE IF spec.fullCommand = "uvx" /\ ~uvxWorks
         THEN [kind |-> "warning",
               text |-> "uvx command found but may not work properly"]
         ELSE [kind |-> "none", text |-> ""]
    ELSE IF ToLowerCase(spec.type) = "http"
    THEN IF UrlProtocol(spec.url) = ""
         THEN [kind |-> "error", text |-> "invalid URL format"]
         ELSE IF ~StartsWithHttp(UrlProtocol(spec.url))
         THEN [kind |-> "error", text |-> "invalid URL protocol"]
         ELSE [kind |-> "none", text |-> ""]
    ELSE [kind |-> "warning", text |-> "unknown type"]

\* the texts of one kind among the findings for the servers, in the order
\* of the servers
Findings(servers, kind, finding) ==
    LET F[i \in 0..Len(ServerIds)] ==
            IF i = 0 THEN <<>>
            ELSE IF /\ servers[ServerIds[i]].type # "absent"
                    /\ finding[ServerIds[i]].kind = kind
                 THEN Append(F[i - 1], finding[ServerIds[i]].text)
                 ELSE F[i - 1]
    IN F[Len(ServerIds)]

\* validateNetworkConnectivity's finding for one server, given what fetch
\* does: "ok", "status" (a response that is not ok) or "error"
NetworkFinding(spec, fetched) ==
    IF spec.type = "http" /\ fetched = "status"
    THEN [kind |-> "warning", text |-> "HTTP status"]
    ELSE IF spec.type = "http" /\ fetched = "error"
    THEN [kind |-> "warning", text |-> "Network error"]
    ELSE [kind |-> "none", text |-> ""]

\* validateSystem(configPath) is called
SysStart ==
    /\ sys.at = "idle"
    /\ sys' = [NoSys EXCEPT !.at = "key"]
    /\ UNCHANGED <<runState, envKey, keyLog, args, file, active, parked,
                   prompt, parser, script, nRejected>>

\* the catch of validateSystem: the error's message is collected
SysCatch(message) ==
    [sys EXCEPT !.at = "report",
                !.errors = Append(@, "Validation failed: " \o message)]

\* 1. validateOpenAIKey()
SysCheckKey ==
    /\ sys.at = "key"
    /\ IF validateOpenAIKey(envKey) # ""
       THEN sys' = SysCatch(validateOpenAIKey(envKey))
       ELSE sys' = [sys EXCEPT !.at = "node"]
    /\ UNCHANGED <<runState, envKey, keyLog, args, file, active, parked,
                   prompt, parser, script, nRejected>>

\* 2. validateNodeEnvironment(), major being the runtime's major version
SysCheckNode(major) ==
    /\ sys.at = "node"
    /\ sys' = [sys EXCEPT !.at = "fs", !.major = major,
                          !.errors = IF major < 18
                                     THEN Append(@, "Node.js version is too old")
                                     ELSE @]
    /\ UNCHANGED <<runState, envKey, keyLog, args, file, active, parked,
                   prompt, parser, script, nRejected>>

\* 3. validateFileSystem(configPath)
SysCheckFs(readable, writable) ==
    /\ sys.at = "fs"
    /\ sys' = [sys EXCEPT !.at = "load", !.readable = readable,
                          !.errors = IF readable THEN @
                                     ELSE Append(@, "Configuration file not readable"),
                          !.warnings = IF writable THEN @
                                       ELSE Append(@, "Working directory not writable")]
    /\ UNCHANGED <<runState, envKey, keyLog, args, file, active, parked,
                   prompt, parser, script, nRejected>>

\* 4. readFile and JSON.parse: both throw into the catch
SysLoad(content, servers) ==
    /\ sys.at = "load"
    /\ IF ~sys.readable
       THEN /\ content = "unreadable"
            /\ sys' = [SysCatch("ENOENT: no such file or directory")
                          EXCEPT !.content = content]
       ELSE IF content = "unparsable"
       THEN sys' = [SysCatch("Unexpected token in JSON")
                      EXCEPT !.content = content]
       ELSE /\ content = "parsed"
            /\ sys' = [sys EXCEPT !.at = "mcp", !.content = content,
                                  !.servers = servers]
    /\ UNCHANGED <<runState, envKey, keyLog, args, file, active, parked,
                   prompt, parser, script, nRejected>>

\* 5. validateMCPServers(config.mcpServers)
SysCheckMcp(uvxWorks) ==
    /\ sys.at = "mcp"
    /\ LET finding == [id \in Range(ServerIds) |->
                          McpFinding(sys.servers[id], uvxWorks)]
       IN sys' = [sys EXCEPT
                    !.at = "network",
                    !.errors = @ \o Findings(sys.servers, "error", finding),
                    !.warnings = @ \o Findings(sys.servers, "warning", finding)]
    /\ UNCHANGED <<runState, envKey, keyLog, args, file, active, parked,
                   prompt, parser, script, nRejected>>

\* 6. validateNetworkConnectivity(config.mcpServers)
SysCheckNetwork(fetched) ==
    /\ sys.at = "network"
    /\ LET finding == [id \in Range(ServerIds) |->
                          NetworkFinding(sys.servers[id], fetched[id])]
       IN sys' = [sys EXCEPT
                    !.at = "report",
                    !.warnings = @ \o Findings(sys.servers, "warning", finding)]
    /\ UNCHANGED <<runState, envKey, keyLog, args, file, active, parked,
                   prompt, parser, script, nRejected>>

\* a report that fails on warnings too
SysReport_WarningsFail ==
    /\ sys.at = "report"
    /\ sys' = [sys EXCEPT !.at = "done",
                          !.ret = IF Len(sys.errors) > 0 \/ Len(sys.warnings) > 0
                                  THEN "false" ELSE "true"]
    /\ UNCHANGED <<runState, envKey, keyLog, args, file, active, parked,
                   prompt, parser, script, nRejected>>

\* the report and the value returned
SysReport ==
    /\ sys.at = "report"
    /\ sys' = [sys EXCEPT !.at = "done",
                          !.ret = IF Len(sys.errors) > 0 THEN "false" ELSE "true"]
    /\ UNCHANGED <<runState, envKey, keyLog, args, file, active, parked,
                   prompt, parser, script, nRejected>>

\* the keys of the environment that validateSystem is called in
SysKeys == {"", "  ", "key-1234", "sk-test"}

InitSys ==
    /\ config \in {c \in Configs : c.flow /\ c.nSteps = 1}
    /\ InitState
    /\ envKey \in SysKeys
    /\ keyLog = <<>>
    /\ args = RunFlowArgs
    /\ file = NoFile
    /\ active = 1
    /\ parked = NoActivation
    /\ sys = NoSys
    /\ parser = NoParser
    /\ script = NoScript
    /\ prompt = NoPrompt

\* a call of validateSystem
NextSys ==
    \/ SysStart
    \/ SysCheckKey
    \/ \E major \in {16, 18, 20} : SysCheckNode(major)
    \/ \E readable, writable \in BOOLEAN : SysCheckFs(readable, writable)
    \/ \E content \in {"unreadable", "unparsable", "parsed"} :
          \E servers \in [Range(ServerIds) -> ServerSpecs] :
             /\ content # "parsed" =>
                   servers = [id \in Range(ServerIds) |-> ServerSpec("absent", "", "")]
             /\ SysLoad(content, servers)
    \/ \E uvxWorks \in BOOLEAN : SysCheckMcp(uvxWorks)
    \/ \E fetched \in [Range(ServerIds) -> {"ok", "status", "error"}] :
          SysCheckNetwork(fetched)
    \/ SysReport

SpecSys == InitSys /\ [][NextSys]_vars

(* --------------------------- runPromptLoop ----------------------------- *)

\* the words that end the loop
ExitWords == {"exit", "quit", ":q"}

\* runPromptLoop up to its loop: the key, then the readline interface
PromptStart ==
    /\ prompt.at = "idle"
    /\ envKey' = ensureOpenAIKey(prompt.apiKey, envKey).env
    /\ keyLog' = Append(keyLog, KeyCall(prompt.apiKey, envKey))
    /\ IF ensureOpenAIKey(prompt.apiKey, envKey).threw
       THEN prompt' = [prompt EXCEPT !.at = "failed"]
       ELSE prompt' = [prompt EXCEPT !.at = "ask", !.created = TRUE,
                                     !.open = TRUE]
    /\ UNCHANGED <<runState, nRejected, args, file, active, parked, sys,
                   parser, script>>

\* rl.question resolves with the next line: a blank line is skipped, an exit
\* word ends the loop and closes the interface, any other line is the
\* prompt of a call of runFlow
PromptRead ==
    /\ prompt.at = "ask"
    /\ prompt.pos < Len(prompt.lines)
    /\ LET userPrompt == Trim(prompt.lines[prompt.pos + 1])
       IN IF userPrompt = ""
          THEN /\ prompt' = [prompt EXCEPT !.pos = @ + 1]
               /\ UNCHANGED <<runState, nRejected, args, file>>
          ELSE IF ToLowerCase(userPrompt) \in ExitWords
          THEN /\ prompt' = [prompt EXCEPT !.pos = @ + 1, !.at = "done",
                                            !.open = FALSE, !.closes = @ + 1]
               /\ UNCHANGED <<runState, nRejected, args, file>>
          ELSE /\ prompt' = [prompt EXCEPT !.pos = @ + 1, !.at = "running",
                                            !.ran = Append(@, userPrompt)]
               /\ Load(NewActivation(config,
                                     [RunFlowArgs EXCEPT !.userPrompt = userPrompt]))
    /\ UNCHANGED <<envKey, keyLog, active, parked, sys, parser, script>>

\* a loop that leaves the interface open when a run fails
PromptResume_LeaveOpen ==
    /\ prompt.at = "running"
    /\ pc \in {"returned", "failed"}
    /\ IF pc = "returned"
       THEN prompt' = [prompt EXCEPT !.at = "ask",
                                     !.logged = Append(@, JsonStringify(retVal))]
       ELSE prompt' = [prompt EXCEPT !.at = "failed"]
    /\ UNCHANGED <<runState, nRejected, args, file, envKey, keyLog, active,
                   parked, sys, parser, script>>

\* the call of runFlow is over: its output is printed and the loop goes on,
\* or its error leaves the loop through the finally that closes the interface
PromptResume ==
    /\ prompt.at = "running"
    /\ pc \in {"returned", "failed"}
    /\ IF pc = "returned"
       THEN prompt' = [prompt EXCEPT !.at = "ask",
                                     !.logged = Append(@, JsonStringify(retVal))]
       ELSE prompt' = [prompt EXCEPT !.at = "failed", !.open = FALSE,
                                     !.closes = @ + 1]
    /\ UNCHANGED <<runState, nRejected, args, file, envKey, keyLog, active,
                   parked, sys, parser, script>>

MaxLines == 3

\* the lines typed: blank ones, prompts and exit words, with white space
\* around them and in either case
Lines == {"", "  ", "hello", " hello ", " Exit ", "QUIT", ":q"}

LineSeqs == UNION {[1..n -> Lines] : n \in 0..MaxLines}

\* the answers of the primitive in the flows of the loop
PromptOutputs == {Obj(Str("x"), Undefined, Undefined), Str("oops")}

InitPrompt ==
    /\ config \in {c \in Configs : c.flow /\ c.nSteps = 1}
    /\ InitState
    /\ envKey \in {"", "sk-test"}
    /\ keyLog = <<>>
    /\ args = RunFlowArgs
    /\ file = NoFile
    /\ active = 1
    /\ parked = NoActivation
    /\ sys = NoSys
    /\ parser = NoParser
    /\ script = NoScript
    /\ prompt \in {PromptOn(lines, k) : lines \in LineSeqs, k \in {"", "sk-one"}}

\* runPromptLoop, with the calls of runFlow it makes
NextPrompt ==
    \/ PromptStart
    \/ PromptRead
    \/ PromptResume
    \/ prompt.at = "running" /\ StartFlow
    \/ prompt.at = "running" /\ ConnectServers
    \/ \E id \in Range(ServerIds) :
          prompt.at = "running" /\ SettleConnect(id, TRUE)
    \/ prompt.at = "running" /\ AwaitConnects
    \/ prompt.at = "running" /\ BuildAgents
    \/ \E s \in {t \in SetupSingleSteps : t.agentRef = "A"} :
          \E out \in PromptOutputs :
             prompt.at = "running" /\ SingleAgentStep(s, out, NoHistory)
    \/ \E s \in {t \in SetupSingleSteps : t.agentRef = "A"} :
          prompt.at = "running" /\ SingleAgentRejects(s)
    \/ prompt.at = "running" /\ AssignStep
    \/ prompt.at = "running" /\ Finish

SpecPrompt == InitPrompt /\ [][NextPrompt]_vars

(* ------------------------------ runParser ------------------------------ *)

\* runParser up to its await of validateSystem(configPathResolved, {apiKey}):
\* validateSystem has one parameter, the path, and starts on its checks
ParserStart ==
    /\ parser.at = "idle"
    /\ sys.at = "idle"
    /\ parser' = [parser EXCEPT !.at = "validating"]
    /\ sys' = [NoSys EXCEPT !.at = "key"]
    /\ UNCHANGED <<runState, envKey, keyLog, args, file, active, parked,
                   prompt, script, nRejected>>

\* if (!validationPassed) { process.exit(1); }
ParserGate ==
    /\ parser.at = "validating"
    /\ sys.at = "done"
    /\ parser' = [parser EXCEPT !.at = IF sys.ret = "false" THEN "exited"
                                       ELSE "load"]
    /\ UNCHANGED <<runState, envKey, keyLog, args, file, active, parked, sys,
                   prompt, script, nRejected>>

\* the configuration is read and validated, and runPromptLoop is called with
\* the explicit key
ParserLoad ==
    /\ parser.at = "load"
    /\ IF validateConfig(config) # ""
       THEN /\ parser' = [parser EXCEPT !.at = "failed"]
            /\ UNCHANGED prompt
       ELSE /\ parser' = [parser EXCEPT !.at = "loop"]
            /\ prompt' = [prompt EXCEPT !.apiKey = parser.apiKey]
    /\ UNCHANGED <<runState, envKey, keyLog, args, file, active, parked, sys,
                   script, nRejected>>

\* runPromptLoop is over: runParser returns, or fails with its error
ParserEnd ==
    /\ parser.at = "loop"
    /\ prompt.at \in {"done", "failed"}
    /\ parser' = [parser EXCEPT !.at = IF prompt.at = "done" THEN "returned"
                                       ELSE "failed"]
    /\ UNCHANGED <<runState, envKey, keyLog, args, file, active, parked, sys,
                   prompt, script, nRejected>>

\* the lines typed into the loop that runParser starts
ParserLineSeqs == {<<>>, <<" Exit ">>, <<"hello", "exit">>, <<"hello">>}

InitParser ==
    /\ config \in {c \in Configs : c.nSteps <= 1}
    /\ InitState
    /\ envKey \in {"", "sk-test"}
    /\ keyLog = <<>>
    /\ args = RunFlowArgs
    /\ file = NoFile
    /\ active = 1
    /\ parked = NoActivation
    /\ sys = NoSys
    /\ parser \in {ParserOn(k) : k \in {"", "sk-one"}}
    /\ script = NoScript
    /\ prompt \in {PromptOn(lines, "") : lines \in ParserLineSeqs}

\* runParser: the validation, the gate, then the prompt loop
NextParser ==
    \/ ParserStart
    \/ parser.at = "validating" /\ NextSys
    \/ ParserGate
    \/ ParserLoad
    \/ parser.at = "loop" /\ NextPrompt
    \/ ParserEnd

SpecParser == InitParser /\ [][NextParser]_vars

(* ------------------------ the key, explored ---------------------------- *)

MaxKeyCalls == 3

\* the values of the environment's key before the first call
EnvKeys == {"", "  ", "sk-test"}

\* the explicit keys of the calls
ExplicitKeys == {"", "  ", "sk-one", "sk-two"}

InitKey ==
    /\ config \in {c \in Configs : (c.flow \/ c.nSteps = 0) /\ c.nSteps <= 1}
    /\ InitState
    /\ envKey \in EnvKeys
    /\ keyLog = <<>>
    /\ args \in {[RunFlowArgs EXCEPT !.apiKey = k] : k \in ExplicitKeys}
    /\ file = NoFile
    /\ active = 1
    /\ parked = NoActivation
    /\ sys = NoSys
    /\ parser = NoParser
    /\ script = NoScript
    /\ prompt = NoPrompt

\* a call of runFlow in a process that calls ensureOpenAIKey now and then
NextKey ==
    \/ \E k \in ExplicitKeys : Len(keyLog) < MaxKeyCalls /\ EnsureKey(k)
    \/ StartFlow
    \/ ConnectServers
    \/ \E id \in Range(ServerIds), connected \in BOOLEAN :
           SettleConnect(id, connected)
    \/ AwaitConnects
    \/ BuildAgents
    \/ \E s \in SetupSingleSteps, out \in SetupOutputs :
          SingleAgentStep(s, out, NoHistory)
    \/ AssignStep
    \/ Finish

SpecKey == InitKey /\ [][NextKey]_vars

(* ---------------- properties of the process and the call --------------- *)

StdioServers == {id \in Range(ServerIds) : config.mcpServers[id] = "stdio"}

\* no agent was built and no step was started
NothingBuilt ==
    /\ agents = NoAgents
    /\ agentTools = NoTools
    /\ history = <<>>
    /\ stepIdx = 0
    /\ step = NoStep
    /\ nRuns = 0

\* C21: buildMcpServers calls connect() on every stdio server before it
\* awaits any of them, and goes on only when all of them have resolved; as
\* soon as one is refused the build fails and runFlow with it, with no agent
\* built and no step executed.
C21_ConnectsFanOutFanIn ==
    /\ [][pc = "connect" =>
             /\ pc' = "await"
             /\ \A id \in StdioServers : settled'[id] = "pending"]_vars
    /\ [][(pc = "await" /\ pc' # "await") =>
             IF Rejected = {}
             THEN /\ pc' = "build"
                  /\ \A id \in StdioServers : settled[id] = "resolved"
             ELSE /\ pc' = "failed"
                  /\ err' = ConnectMessage]_vars
    /\ [](Rejected # {} => (pc \in {"await", "failed"} /\ NothingBuilt))

C21_Witness ==
    /\ pc = "failed"
    /\ err = ConnectMessage
    /\ settled["proc"] = "resolved"
    /\ settled["svc"] = "rejected"
    /\ NothingBuilt

\* the entries of an agent that name a configured agent as a tool
KeptEntries(id) ==
    {i \in DOMAIN config.tools[id] :
        /\ config.tools[id][i].kind = "agent"
        /\ config.tools[id][i].ref \in DeclaredAgents(config)}

\* the k-th of them, in the order of the declaration
KeptEntry(id, k) ==
    CHOOSE i \in KeptEntries(id) :
        Cardinality({j \in KeptEntries(id) : j <= i}) = k

\* C22: buildAgents never fails because of a tool entry; the tools of an
\* agent are, in the order of the declaration, one tool for each entry of
\* kind agent whose ref names a configured agent, named by the entry's id or
\* else by its ref; an agent entry with an unknown ref, a function entry and
\* an entry of any other kind give no tool.
C22_ToolsOfAgentEntries ==
    /\ pc \in {"start", "built"}
    /\ err = ""
    /\ pc = "built" =>
          \A id \in DeclaredAgents(config) :
             /\ Len(agentTools[id]) = Cardinality(KeptEntries(id))
             /\ \A k \in DOMAIN agentTools[id] :
                   LET t == config.tools[id][KeptEntry(id, k)]
                   IN /\ agentTools[id][k].agent = t.ref
                      /\ agentTools[id][k].toolName =
                            (IF t.id = "" THEN t.ref ELSE t.id)

C22_Witness ==
    /\ pc = "built"
    /\ config.agents["B"] = "basic"
    /\ config.tools["A"] = <<ToolEntry("function", "B", "helpTool"),
                             ToolEntry("agent", "B", "helpTool"),
                             ToolEntry("agent", "A", "")>>
    /\ agentTools["A"] = <<[toolName |-> "helpTool", agent |-> "B"],
                           [toolName |-> "A", agent |-> "A"]>>

\* the calls of ensureOpenAIKey that gave a non-empty explicit key
ExplicitCalls == {i \in DOMAIN keyLog : keyLog[i].explicitKey # ""}

\* the latest of them before call i
LastExplicit(i) ==
    keyLog[CHOOSE j \in ExplicitCalls :
              j < i /\ \A k \in ExplicitCalls : k < i => k <= j].explicitKey

\* C23: runFlow goes through its phases in a fixed order: the key, the
\* validation of the configuration, the connection of the servers, the
\* build of the agents, the steps. Where the key is missing or blank, or the
\* validation fails, runFlow fails with no server connected, no agent built
\* and no invocation made.
C23_PhasesInOrder ==
    /\ [][(pc = "start" /\ pc' # "start") =>
             LET key == IF args.apiKey # "" THEN args.apiKey ELSE envKey
             IN IF key \in {"", "  "}
                THEN pc' = "failed" /\ err' = KeyMessage
                ELSE IF validateConfig(config) # ""
                THEN pc' = "failed" /\ err' = validateConfig(config)
                ELSE pc' = "connect"]_vars
    /\ [][pc' # pc =>
             <<pc, pc'>> \in {<<"start", "connect">>, <<"start", "failed">>,
                              <<"connect", "await">>, <<"await", "build">>,
                              <<"await", "failed">>, <<"build", "loop">>,
                              <<"loop", "assign">>, <<"assign", "loop">>,
                              <<"loop", "returned">>, <<"loop", "failed">>}]_vars
    /\ []((pc = "failed" /\ err \in {KeyMessage, FlowMessage, StepsMessage}) =>
             (NothingDone /\ NothingBuilt /\ settled = NoConnects))
    /\ [](pc \in {"start", "connect"} => (NothingDone /\ NothingBuilt))
    /\ [](pc \in {"await", "build"} => NothingBuilt)

C23_Witness ==
    /\ pc = "failed"
    /\ err = KeyMessage
    /\ validateConfig(config) # ""
    /\ envKey = "  "
    /\ NothingDone

\* the environment holds the latest non-empty explicit key, if there is one
LastWriteWins ==
    ExplicitCalls # {} => envKey = LastExplicit(Len(keyLog) + 1)

\* the calls without an explicit key that follow one with a non-empty one
LaterCalls ==
    {i \in DOMAIN keyLog :
        keyLog[i].explicitKey = "" /\ \E j \in ExplicitCalls : j < i}

C30_RejectionEndsTheRun ==
    /\ [](nRejected > 0 =>
             /\ nRejected = 1
             /\ pc = "failed"
             /\ err = RunMessage
             /\ retVal = Undefined)
    /\ [][nRejected > 0 =>
             /\ nRuns' = nRuns
             /\ stepIdx' = stepIdx
             /\ turn' = turn
             /\ runArg' = runArg]_vars
    /\ [][nRejected' > nRejected => UNCHANGED flowVars]_vars

C30_Witness ==
    /\ pc = "failed"
    /\ err = RunMessage
    /\ nRejected = 1
    /\ stepIdx = 1
    /\ currentOutput # Null
    /\ step.type = "agent_reviewer"
    /\ nProp = 1
    /\ nRev = 1
    /\ retVal = Undefined

\* every step of the flow has run
AllStepsRun ==
    /\ history # <<>>
    /\ stepIdx = config.nSteps
    /\ pc # "loop"

\* the upload, the first message and the delete of the entry points that
\* take a file
UploadSeedDelete ==
    /\ file.uploads <= 1
    /\ nRuns > 0 => (file.uploads = 1 /\ file.id = "file-123")
    /\ (pc = "loop" /\ stepIdx = 0) =>
          history = <<Msg("user", "[input_file file-123][input_text prompt]")>>
    /\ file.deletes =
          (IF AllStepsRun /\ args.deleteFileAfter # "false" THEN 1 ELSE 0)

\* C26, as claimed: the file is uploaded once before any invocation, the
\* history starts with one user message of the file and the prompt, delete
\* is called once after the steps unless deleteFileAfter is false, and a run
\* that returns gives the final output with the file's id as fileId.
C26_ReturnsOutputWithFileId ==
    /\ UploadSeedDelete
    /\ pc = "returned" =>
          (retVal = currentOutput /\ file.fileId = "file-123")

\* C26: the same, except that a run none of whose steps gave an output
\* returns { result: '' } with no fileId.
C26_ReturnsOutputWithFileIdUnlessNull ==
    /\ UploadSeedDelete
    /\ pc = "returned" =>
          IF currentOutput = Null
          THEN retVal = EmptyResult /\ file.fileId = ""
          ELSE retVal = currentOutput /\ file.fileId = "file-123"

C26_Witness ==
    /\ pc = "returned"
    /\ args.entry = "runFlowWithFileBuffer"
    /\ args.deleteFileAfter = "false"
    /\ config.nSteps = 2
    /\ nRuns = 2
    /\ file = [id |-> "file-123", uploads |-> 1, deletes |-> 0, warnings |-> 0,
               fileId |-> "file-123"]
    /\ retVal = Obj(Str("ok:file"), Undefined, Undefined)

\* C27: a delete of the uploaded file that fails is warned about and is not
\* fatal: the entry point returns, or fails the check of the output's shape,
\* as it does when the delete succeeds.
C27_DeleteFailureNotFatal ==
    /\ [][file'.deletes > file.deletes =>
             /\ pc' = "deleted"
             /\ file'.warnings \in {file.warnings, file.warnings + 1}
             /\ UNCHANGED <<retVal, err, currentOutput>>]_vars
    /\ []((AllStepsRun /\ pc \in {"returned", "failed"}) =>
             /\ file.warnings <= file.deletes
             /\ pc = "returned" <=>
                   \/ currentOutput = Null
                   \/ currentOutput.t = "object" /\ Truthy(Get(currentOutput, "result"))
             /\ pc = "returned" =>
                   /\ retVal = (IF currentOutput = Null THEN EmptyResult
                                 ELSE currentOutput)
                   /\ file.fileId = (IF currentOutput = Null THEN ""
                                      ELSE "file-123")
             /\ pc = "failed" =>
                   err = (IF currentOutput.t = "string" THEN StringOutputMessage
                          ELSE MissingResultMessage))

C27_Witness ==
    /\ pc = "returned"
    /\ args.entry = "runFlowWithFile"
    /\ file = [id |-> "file-123", uploads |-> 1, deletes |-> 1, warnings |-> 1,
               fileId |-> "file-123"]
    /\ retVal = Obj(Str("ok:file"), Undefined, Undefined)

\* the thread of activation r after k of its invocations
ThreadOf(r, k) ==
    <<Msg("user", PromptOf(r))>> \o [i \in 1..k |-> ReplyOf(r)]

\* what activation r holds, a being its record, is what the call alone gives
OwnState(a, r) ==
    /\ a.args.userPrompt = PromptOf(r)
    /\ a.pc \in {"loop", "assign", "returned"} =>
          /\ a.history = ThreadOf(r, a.stepIdx)
          /\ a.currentOutput =
                (IF a.stepIdx = 0 THEN Null ELSE OutputOf(r, a.stepIdx))
          /\ \A id \in Range(AgentIds) :
                a.agents[id] =
                   (IF a.config.agents[id] = "absent" THEN "none" ELSE "basic")
          /\ \A id \in Range(ServerIds) :
                a.mcpRegistry[id] =
                   CASE a.config.mcpServers[id] = "stdio" -> "MCPServerStdio"
                     [] a.config.mcpServers[id] = "http" -> "url"
                     [] OTHER -> "none"
    /\ a.pc = "assign" => a.runArg = ThreadOf(r, a.nRuns - 1)
    /\ a.pc = "assign" =>
          a.stepResult = StepResult(OutputOf(r, a.nRuns), ThreadOf(r, a.nRuns),
                                    "none")
    /\ a.pc # "failed"
    /\ a.pc = "returned" =>
          (a.stepIdx = a.config.nSteps /\ a.retVal = OutputOf(r, a.config.nSteps))

\* C25: two runs of the flow that interleave at their awaits share nothing
\* but the environment's key: each builds its registries and has its own
\* history and current output, so that the history each invocation of a run
\* sees and the run's result depend on that run's configuration, prompt and
\* answers alone, whatever the interleaving.
C25_RunsDoNotInterfere ==
    /\ OwnState(Activation, active)
    /\ OwnState(parked, 3 - active)

C25_Witness ==
    /\ active = 2
    /\ pc = "assign"
    /\ nRuns = 1
    /\ stepResult.finalOutput = OutputOf(2, 1)
    /\ parked.pc = "loop"
    /\ parked.config.nSteps = 2
    /\ parked.stepIdx = 1
    /\ parked.history = <<Msg("user", "prompt"), Msg("assistant", "reply")>>
    /\ envKey = "sk-two"
    /\ parked.args.apiKey = "sk-one"

\* the key of the environment is missing, blank or malformed
BadKey == envKey \in {"", "  ", "key-1234"}

\* a server whose stdio or http specification validateMCPServers rejects
BadServer(spec) ==
    \/ spec.type = "stdio" /\ spec.fullCommand \in {"", "ghost"}
    \/ spec.type \in {"http", "HTTP"} /\
          spec.url \notin {"http://example.com", "https://example.com"}

\* C28: validateSystem never throws and returns a boolean: false exactly
\* when an error was collected (a missing, blank or malformed key, a
\* configuration file that cannot be read or parsed, a bad stdio or http
\* server, a runtime that is too old), true otherwise; warnings alone never
\* make it return false.
C28_FalseExactlyOnErrors ==
    /\ sys.at = "done" <=> sys.ret \in {"true", "false"}
    /\ sys.at = "done" =>
          /\ sys.ret = "false" <=> Len(sys.errors) > 0
          /\ sys.ret = "false" <=>
                \/ BadKey
                \/ sys.major \in {16}
                \/ ~sys.readable
                \/ sys.content = "unparsable"
                \/ \E id \in Range(ServerIds) : BadServer(sys.servers[id])

C28_Witness ==
    /\ sys.at = "done"
    /\ sys.ret = "true"
    /\ sys.servers["proc"].type = "sse"
    /\ sys.servers["svc"].type = "http"
    /\ sys.warnings = <<"Working directory not writable", "unknown type",
                        "Network error">>

\* the first line that is an exit word (one past the last line if none is)
FirstExit(lines) ==
    LET exits == {i \in DOMAIN lines :
                    \/ lines[i] \in {" Exit ", "QUIT", ":q"}}
    IN IF exits = {} THEN Len(lines) + 1
       ELSE CHOOSE i \in exits : \A j \in exits : i <= j

\* a line with something on it
NonBlank(line) == line \notin {"", "  "}

\* the prompts on the first n lines, in their order
PromptsOf(lines, n) ==
    LET typed == SelectSeq(SubSeq(lines, 1, n), NonBlank)
    IN [i \in DOMAIN typed |-> IF typed[i] = " hello " THEN "hello" ELSE typed[i]]

\* the loop is over and the readline interface is closed
LoopClosed ==
    (prompt.created /\ prompt.at \in {"done", "failed"}) =>
       (~prompt.open /\ prompt.closes = 1)

\* C29, as claimed: whatever the lines, the loop runs one flow for each
\* non-blank line before the first exit word, in order and one at a time,
\* none for a blank line, stops at that exit word, and closes the readline
\* interface on every way out.
C29_OneFlowPerLineBeforeExit ==
    /\ LoopClosed
    /\ (prompt.created /\ prompt.at \in {"done", "failed"}) =>
          prompt.ran = PromptsOf(prompt.lines, FirstExit(prompt.lines) - 1)

\* C29: the same, up to the first flow that fails: its error ends the loop
\* (the interface is closed) and the lines after it are not read.
C29_OneFlowPerLineUntilFailure ==
    /\ [](LoopClosed)
    /\ [](prompt.pos <= FirstExit(prompt.lines) /\ prompt.pos <= Len(prompt.lines))
    /\ [](prompt.ran = PromptsOf(prompt.lines,
                                 IF prompt.at = "done" THEN prompt.pos - 1
                                 ELSE prompt.pos))
    /\ [](prompt.at = "done" <=>
             (prompt.pos = FirstExit(prompt.lines) /\ prompt.pos > 0))
    /\ []((prompt.created /\ prompt.at = "failed") =>
             (pc = "failed" /\ prompt.pos < FirstExit(prompt.lines)))
    /\ [](prompt.at \in {"ask", "running"} => (prompt.open /\ prompt.closes = 0))
    /\ [](prompt.at # "running" => pc \in {"start", "returned", "failed"})
    /\ [][prompt'.ran # prompt.ran =>
             (prompt.at = "ask" /\ pc \in {"start", "returned"})]_vars

C29_Witness ==
    /\ prompt.at = "done"
    /\ prompt.lines = <<" hello ", "  ", "QUIT">>
    /\ prompt.ran = <<"hello">>
    /\ Len(prompt.logged) = 1
    /\ ~prompt.open

(* ----------------------- the turn budget, explored ---------------------- *)

\* the values of step.maxTurns explored: numbers from below zero up to the
\* largest budget, and a value that is not a number (the string "3")
TurnBudgets ==
    {[isNumber |-> TRUE, n |-> n] : n \in -1..MaxTurns}
        \cup {[isNumber |-> FALSE, n |-> 3]}

\* review steps with each of these budgets, whose pass condition reads the
\* review or the turn and the budget
TurnSteps ==
    {[WithReviewer(RawStep("agent_reviewer", p, 0, "as_user", "true"), "A", "B")
         EXCEPT !.maxTurns = b] :
        p \in {DefaultPassCondition, "turn >= maxTurns"}, b \in TurnBudgets}

TurnProposals == {Obj(Str("v1"), Undefined, Undefined)}

\* the reviews: none, a failure, a pass, and a failure that has fields named
\* turn and maxTurns of its own
TurnReviews ==
    {Null,
     Obj(Undefined, Str("fail"), Str("needs work")),
     Obj(Str("review-ok"), Str("pass"), Str("needs work")),
     WithTurnFields(Obj(Undefined, Str("fail"), Str("needs work")), 99, 0)}

InitTurns ==
    /\ config \in {c \in Configs : c.flow /\ c.nSteps = 1}
    /\ InitState
    /\ InitHost

\* one run of a flow of one review step, with as many invocations as the
\* step makes
NextTurns ==
    \/ StartFlow
    \/ ConnectServers
    \/ \E id \in Range(ServerIds), connected \in BOOLEAN :
           SettleConnect(id, connected)
    \/ AwaitConnects
    \/ BuildAgents
    \/ \E s \in TurnSteps : BeginReviewer(s)
    \/ \E out \in TurnProposals : Propose(out, NoHistory)
    \/ \E out \in TurnReviews : Review(out, NoHistory)
    \/ Exhaust
    \/ AssignStep
    \/ Finish

SpecTurns == InitTurns /\ [][NextTurns]_vars

\* the same where every call that is awaited settles and every continuation
\* is run
SpecTurnsFair == SpecTurns /\ WF_vars(NextTurns)

(* ------------- run-flow.mjs's executor beside core.mjs's --------------- *)

\* the history after the feedback of a failed review in run-flow.mjs: a
\* system message for as_system, nothing for append_only, and a user message
\* in the else branch, that is for every other mode
ScriptInjectFeedback(mode, h, review) ==
    CASE mode = "as_system" ->
           Append(h, Msg("system", "Feedback: " \o FeedbackText(review)))
      [] mode = "append_only" -> h
      [] OTHER ->
           Append(h, Msg("user", "Feedback: " \o FeedbackText(review)))

\* core.mjs's executor has made its calls up to here and run-flow.mjs's has
\* made the same number
BesideCore == script.at # "idle" /\ script.nCalls = nCalls

\* run-flow.mjs's execAgentReviewer is called with the arguments core.mjs's
\* was called with: the agents, the history and the options of the step
ScriptBegin ==
    /\ script.at = "idle"
    /\ pc = "while"
    /\ nCalls = 0
    /\ script' = [NoScript EXCEPT !.at = "while", !.nextHistory = histArg]
    /\ UNCHANGED <<runState, envKey, keyLog, args, file, active, parked, sys,
                   prompt, parser, nRejected>>

\* one iteration of its loop up to the proposal's answer, which is the
\* answer core.mjs's proposal call got
ScriptPropose ==
    /\ script.at = "while"
    /\ script.nCalls < nCalls
    /\ LoopContinues(script.turn, StepMaxTurns(step))
    /\ script' = [script EXCEPT
                    !.at = "review",
                    !.turn = @ + 1,
                    !.nCalls = @ + 1,
                    !.agent = Lookup(agents, step.proposalAgentRef),
                    !.arg = script.nextHistory,
                    !.lastProposal = Coalesce(prop.finalOutput, Null),
                    !.nextHistory =
                        Adopt(StepCarryHistory(step), prop.history, @)]
    /\ UNCHANGED <<runState, envKey, keyLog, args, file, active, parked, sys,
                   prompt, parser, nRejected>>

\* the rest of the iteration, on the answer core.mjs's review call got
ScriptReview ==
    LET review == ReviewOf(rev.finalOutput)
        adopted == Adopt(StepCarryHistory(step), rev.history,
                         script.nextHistory)
        ok == Truthy(evalExpr(StepPassCondition(step), review, script.turn,
                              StepMaxTurns(step)))
    IN  /\ script.at = "review"
        /\ script.nCalls < nCalls
        /\ script' = [script EXCEPT
                        !.at = IF ok THEN "done" ELSE "while",
                        !.nCalls = @ + 1,
                        !.agent = Lookup(agents, step.reviewerAgentRef),
                        !.arg = script.nextHistory,
                        !.nextHistory =
                            IF ok THEN adopted
                            ELSE ScriptInjectFeedback(
                                     StepFeedbackInjection(step), adopted,
                                     review),
                        !.result =
                            IF ok
                            THEN StepResult(script.lastProposal, adopted, "true")
                            ELSE @]
        /\ UNCHANGED <<runState, envKey, keyLog, args, file, active, parked,
                       sys, prompt, parser, nRejected>>

\* its return after the loop
ScriptExhaust ==
    /\ script.at = "while"
    /\ ~LoopContinues(script.turn, StepMaxTurns(step))
    /\ script' = [script EXCEPT
                    !.at = "done",
                    !.result = StepResult(script.lastProposal,
                                          script.nextHistory, "false")]
    /\ UNCHANGED <<runState, envKey, keyLog, args, file, active, parked, sys,
                   prompt, parser, nRejected>>

\* the feedbackInjection of the steps: the three modes that have a name and
\* a string that is none of them
ScriptModes == {"as_user", "as_system", "append_only", "weird"}

ScriptSteps ==
    {WithReviewer(RawStep("agent_reviewer", DefaultPassCondition, n, i, c),
                  "A", "B") :
        n \in 1..MaxTurns, i \in ScriptModes, c \in {"true", "false"}}

InitScript ==
    /\ config \in {c \in Configs : c.flow /\ c.nSteps = 1}
    /\ InitState
    /\ InitHost

\* one review step run by both executors: each invocation of core.mjs's is
\* followed by the same invocation of run-flow.mjs's, with the same answer
NextScript ==
    \/ StartFlow
    \/ ConnectServers
    \/ \E id \in Range(ServerIds) : SettleConnect(id, TRUE)
    \/ AwaitConnects
    \/ BuildAgents
    \/ \E s \in ScriptSteps : BeginReviewer(s)
    \/ ScriptBegin
    \/ \E out \in TurnProposals, h \in RunHistories(nextHistory) :
          BesideCore /\ Propose(out, h)
    \/ \E out \in TurnReviews, h \in RunHistories(nextHistory) :
          BesideCore /\ Review(out, h)
    \/ BesideCore /\ Exhaust
    \/ ScriptPropose
    \/ ScriptReview
    \/ ScriptExhaust
    \/ script.at = "done" /\ AssignStep
    \/ Finish

SpecScript == InitScript /\ [][NextScript]_vars

(* ------------------ properties of the loop and its budget --------------- *)

\* C33: the value standardized at the end of a run is the output of the last
\* executed step only: each step that returns overwrites the current output
\* with its own, null included, and the run returns {result: ""} for a null
\* current output and the current output itself otherwise, whatever earlier
\* steps produced.
C33_LastStepOnly ==
    /\ [][(pc = "assign" /\ pc' = "loop") =>
            currentOutput' = stepResult.finalOutput]_vars
    /\ [][(pc = "loop" /\ pc' = "returned") =>
            /\ stepIdx = config.nSteps
            /\ currentOutput' = currentOutput
            /\ retVal' = IF currentOutput = Null THEN EmptyResult
                         ELSE currentOutput]_vars
    /\ []((pc = "returned" /\ currentOutput = Null) => retVal = EmptyResult)

\* two single-agent steps: the first answered something, the last one null
C33_Witness ==
    /\ pc = "returned"
    /\ stepIdx = 2
    /\ nRuns = 2
    /\ ~allNull
    /\ currentOutput = Null
    /\ retVal = EmptyResult

\* the review loop of a step whose io.carryHistory is false is running or has
\* just returned
LoopWithoutCarry ==
    /\ step.type = "agent_reviewer"
    /\ pc \in {"while", "review", "assign"}
    /\ step.carryHistory = "false"

\* the feedback message the loop of this step injects for the review r
FeedbackOf(r) ==
    Msg(IF StepFeedbackInjection(step) = "as_system" THEN "system" ELSE "user",
        "Feedback: " \o FeedbackText(ReviewOf(r)))

\* h is the executor's input history followed by n feedback messages of
\* this step and nothing else
InputPlusFeedback(h, n) ==
    /\ Len(h) = Len(histArg) + n
    /\ SubSeq(h, 1, Len(histArg)) = histArg
    /\ \A i \in (Len(histArg) + 1)..Len(h) :
          \E r \in ReviewOutputs : h[i] = FeedbackOf(r)

\* the reviews of this step that have failed so far
FailedReviews == IF pc = "assign" /\ pass THEN nRev - 1 ELSE nRev

\* C38: with carryHistory false the review loop never adopts a history the
\* primitive returned: the history it holds, the history of every invocation
\* and the history it returns are the input history followed by one feedback
\* message per failed review so far (none in append_only mode, where all of
\* them are the input history itself).
C38_NoCarryKeepsInput ==
    LoopWithoutCarry =>
        /\ InputPlusFeedback(nextHistory,
              IF StepFeedbackInjection(step) = "append_only" THEN 0
              ELSE FailedReviews)
        /\ nCalls > 0 =>
              /\ Len(runArg) <= Len(nextHistory)
              /\ InputPlusFeedback(runArg, Len(runArg) - Len(histArg))
              /\ runArg = SubSeq(nextHistory, 1, Len(runArg))
              /\ pc = "review" => runArg = nextHistory
        /\ pc = "assign" => stepResult.history = nextHistory
        /\ StepFeedbackInjection(step) = "append_only" =>
              /\ nextHistory = histArg
              /\ nCalls > 0 => runArg = histArg

\* the second review of a loop without carried history has just failed, and
\* both runs of the turn returned a history of their own
C38_Witness ==
    /\ LoopWithoutCarry
    /\ pc = "while"
    /\ turn = 2
    /\ nRev = 2
    /\ prop.history.some
    /\ rev.history.some
    /\ StepFeedbackInjection(step) = "as_user"
    /\ Len(nextHistory) = Len(histArg) + 2

\* C32: the engine never changes a history in place: while an executor runs
\* and when it returns, runFlow's history holds what it held when it was
\* passed in; the feedback goes into a new sequence that is one message
\* longer; and runFlow's history changes only when runFlow seeds it and when
\* it takes the history an executor returned.
C32_HistoryNeverMutated ==
    /\ []((pc \in {"while", "review", "assign"}) => history = histArg)
    /\ [][(pc = "review" /\ pc' = "while") =>
            /\ history' = history
            /\ Len(nextHistory') \in {Len(nextHistory), Len(nextHistory) + 1,
                                       Len(nextHistory) + 2}
            /\ StepFeedbackInjection(step) # "append_only" =>
                  Len(nextHistory') > Len(history')]_vars
    /\ [][history' # history =>
            \/ pc = "build" /\ history' = <<Msg("user", args.userPrompt)>>
            \/ pc = "assign" /\ history' = stepResult.history]_vars

\* a review failed and its feedback was added while the loop still worked on
\* the very array runFlow passed in (no run had returned a history)
C32_Witness ==
    /\ pc = "assign"
    /\ step.type = "agent_reviewer"
    /\ ~pass
    /\ ~prop.history.some
    /\ ~rev.history.some
    /\ turn = 1
    /\ StepFeedbackInjection(step) = "as_user"
    /\ stepResult.history # history
    /\ history = histArg

\* the review loop of the step is running or has just returned
InReviewLoop ==
    /\ step.type = "agent_reviewer"
    /\ pc \in {"while", "review", "assign"}

\* the iterations a loop with the budget of the step can make
Budget == IF StepMaxTurns(step) > 0 THEN StepMaxTurns(step) ELSE 0

\* C31 as stated: the turn counter starts at 0, is incremented once at the
\* top of each iteration and never exceeds maxTurns, and the executor
\* terminates after at most maxTurns proposal and at most maxTurns reviewer
\* invocations, for every maxTurns.
C31_TurnNeverExceedsMaxTurns ==
    /\ [](InReviewLoop =>
            /\ turn <= StepMaxTurns(step)
            /\ nProp <= StepMaxTurns(step)
            /\ nRev <= StepMaxTurns(step))
    /\ [][(pc = "loop" /\ pc' = "while") => turn' = 0]_vars
    /\ <>(pc \in {"returned", "failed"})

\* C31 as amended: the turn counter starts at 0, is incremented once at the
\* top of each iteration, before the proposal is invoked, and never exceeds
\* the larger of maxTurns and 0; whatever the agents answer, the executor
\* returns, after at most that many proposal and that many reviewer
\* invocations.
C31_TurnWithinBudget ==
    /\ [](InReviewLoop =>
            /\ turn \in 0..Budget
            /\ nProp = turn
            /\ nRev \in {turn - 1, turn}
            /\ nRev >= 0
            /\ nCalls = nProp + nRev)
    /\ [][(pc = "loop" /\ pc' = "while") => turn' = 0]_vars
    /\ [][(turn' # turn /\ pc # "loop" /\ pc' # "loop") =>
            /\ pc = "while"
            /\ pc' = "review"
            /\ turn' = turn + 1
            /\ nProp' = nProp + 1]_vars
    /\ [](pc = "while" => <>(pc = "assign"))
    /\ <>(pc \in {"returned", "failed"})

\* a loop of two turns has used both and returned without a pass
C31_Witness ==
    /\ ReviewerReturned
    /\ ~pass
    /\ step.maxTurns = [isNumber |-> TRUE, n |-> 2]
    /\ turn = 2
    /\ nProp = 2
    /\ nRev = 2

\* C34: a review step whose maxTurns is a number that is not positive
\* invokes neither agent and returns a null output, passed = false and the
\* history it was given; a maxTurns that is not a number gives the loop the
\* budget of 8 turns.
C34_NonPositiveBudgetRunsNothing ==
    /\ (InReviewLoop /\ step.maxTurns.isNumber /\ step.maxTurns.n <= 0) =>
          /\ pc # "review"
          /\ nProp = 0
          /\ nRev = 0
          /\ nCalls = 0
          /\ nRuns = 0
          /\ pc = "assign" =>
                /\ stepResult.finalOutput = Null
                /\ stepResult.passed = "false"
                /\ stepResult.history = histArg
                /\ stepResult.history = history
    /\ (InReviewLoop /\ ~step.maxTurns.isNumber) =>
          /\ turn <= 8
          /\ (pc = "assign" /\ ~pass) => (turn = 8 /\ nProp = 8 /\ nRev = 8)

\* a step whose maxTurns is -1 has returned
C34_Witness ==
    /\ ReviewerReturned
    /\ step.maxTurns = [isNumber |-> TRUE, n |-> 0 - 1]
    /\ stepResult.passed = "false"

\* the latest review of the step has been checked against the pass condition
ReviewChecked ==
    /\ step.type = "agent_reviewer"
    /\ pc \in {"while", "assign"}
    /\ nRev >= 1
    /\ nRev = turn

\* C35: the pass condition sees the loop's own turn and budget: with the
\* condition turn >= maxTurns the check holds exactly from the turn that
\* equals the budget on, whatever fields named turn or maxTurns the review
\* has; and a review that is null counts as the empty object: its check does
\* not throw under that condition, throws on the unbound score under the
\* default one, and its feedback is the text {}.
C35_ContextTurnIsLoopTurn ==
    ReviewChecked =>
        /\ step.passCondition = "turn >= maxTurns" =>
              /\ pass = (turn >= StepMaxTurns(step))
              /\ nThrew = 0
        /\ (rev.finalOutput = Null /\ step.passCondition = DefaultPassCondition) =>
              (~pass /\ nThrew >= 1)
        /\ (rev.finalOutput = Null /\ ~pass /\ pc = "while") =>
              nextHistory[Len(nextHistory)] = Msg("user", "Feedback: {}")

\* on the first of two turns the reviewer answered turn: 99 and maxTurns: 0,
\* and the check did not hold
C35_Witness ==
    /\ ReviewChecked
    /\ pc = "while"
    /\ step.passCondition = "turn >= maxTurns"
    /\ step.maxTurns = [isNumber |-> TRUE, n |-> 2]
    /\ turn = 1
    /\ "turn" \in OwnKeys(rev.finalOutput)
    /\ ~pass

(* ------------- properties of the key, the file and the parser ----------- *)

\* C36: a call of ensureOpenAIKey that throws leaves the key of the process
\* as it was: a valid key that was there before the call is there after it,
\* whatever explicit key the call was given, a blank one included.
C36_FailedCallLeavesKey ==
    [][(/\ Len(keyLog') = Len(keyLog) + 1
        /\ keyLog'[Len(keyLog')].threw
        /\ Trim(envKey) # "") => envKey' = envKey]_vars

\* C37: once runFlowWithFile or runFlowWithFileBuffer has uploaded a file and
\* deleteFileAfter is not false, the delete of that file is called before
\* the call completes, whether it returns or fails.
C37_UploadedFileDeleted ==
    (/\ args.entry \in FileEntries
     /\ pc \in {"returned", "failed"}
     /\ file.id # ""
     /\ args.deleteFileAfter # "false") => file.deletes >= 1

\* C40: runParser called with a well-formed explicit key while the
\* environment holds none does not exit at the validation gate for want of
\* a key: when it exits, the validation collected some other error
C40_ExplicitKeyPassesGate ==
    (parser.at = "exited" /\ StartsWithSk(parser.apiKey) /\ envKey = "") =>
        \E i \in 1..Len(sys.errors) :
           sys.errors[i] # "Validation failed: " \o validateOpenAIKey("")

\* C39: the executor of core.mjs and the one of run-flow.mjs, called with
\* the same history and the same options and given the same answers, make
\* the same invocations (the same agent on the same history) and return the
\* same finalOutput, history and passed, whatever the feedbackInjection.
C39_ExecutorsAgree ==
    /\ (BesideCore /\ nCalls > 0) =>
          (script.agent = runAgent /\ script.arg = runArg)
    /\ (pc = "assign" /\ script.at = "done") => script.result = stepResult

====
